---------------------------- MODULE Spec2Model ----------------------------
(***************************************************************************)
(* A model of the ray tracer's traversal and shading pipeline:             *)
(* Intersection::hit, the CSG intersection filter, World::is_shadowed,     *)
(* the color_at / reflected_color / refracted_color recursion,             *)
(* Camera::render and Group::divide.                                       *)
(*                                                                         *)
(* Reals are fixed-point integers counted in halves: Fixed(1) = 2 stands   *)
(* for 1.0, so 0.5 is 1 and 6.5 is 13.  Rays are axis-aligned (direction   *)
(* components in {-1, 0, 1}), which keeps every t value of the modelled    *)
(* kernels an exact integer of that scale.  near_eq(a, b), |a - b| <       *)
(* EPSILON, is equality on these values.  A ray handed to a group may      *)
(* also drift: a direction component that is nonzero and below EPSILON.    *)
(***************************************************************************)
EXTENDS Integers, Sequences, FiniteSets, TLC

VARIABLES
    pc,                 \* position of the operation under way
    intersections,      \* Intersection::hit: the sorted list handed in
    hitResult,          \* Intersection::hit: the Option returned
    operation,          \* CSG.operation
    left_hit,           \* intersection_allowed: argument
    inside_left_hit,    \* intersection_allowed: argument
    inside_right_hit,   \* intersection_allowed: argument
    allowed,            \* intersection_allowed: Option of the value returned
    csgInput,           \* filter_intersections: the hit list handed in
    csgFiltered,        \* filter_intersections: Option of the list returned
    ray,                \* CSG::intersect: the ray
    shape2Transform,    \* CSG::intersect: translation of the right shape
    csgResult,          \* CSG::intersect: Option of the list returned
    objects,            \* World.objects
    lights,             \* World.lights
    point,              \* is_shadowed: the point asked about
    shadowed,           \* is_shadowed: Option of the Vec<bool> returned
    remaining0,         \* color_at: the depth the outermost call is given
    stack,              \* color_at: the calls under way, outermost first
    hitSurface,         \* color_at: Option of the surface color of the outermost hit
    colorResult,        \* color_at: Option of the color the outermost call returned
    hsize,              \* Camera.hsize
    vsize,              \* Camera.vsize
    image,              \* render: the canvas
    render_x,           \* render: the column loop variable x
    render_y,           \* render: the row loop variable y
    writes,             \* render: the pixels written, in order
    group,              \* the group under division
    registry,           \* PARENT_REFERENCES
    idCount,            \* ID_COUNT
    threshold,          \* divide: its argument
    undivided,          \* the group as it was before divide
    groupCsg,           \* Option of the CSG built over the group
    extracted,          \* the lists partition_children returned, not yet used
    matrices,           \* the matrices alive, in order of creation
    cachedInverses,     \* CACHED_INVERSES
    matrixId,           \* MATRIX_ID
    lastInverse,        \* inverse: Option of the matrix asked and the Option returned
    created,            \* the shapes made, each with the constructor call it stems from
    sphereIdCount,      \* ID_COUNT of Sphere::new
    cubeIdCount,        \* ID_COUNT of Cube::new
    calls,              \* constructor calls made so far
    vertices,           \* parse_obj_file: vertices
    normals,            \* parse_obj_file: normals
    groups,             \* parse_obj_file: groups, each the list of its children
    lines_ignored,      \* parse_obj_file: lines_ignored
    parsing,            \* parse_obj_file: reading, returned or panicked
    lastFace,           \* Option of the last face record read and what it did
    recordsRead,        \* parse_obj_file: lines read that are not v or vn records
    world,              \* World.objects: the transform of each object
    canvasSize,         \* Option of the hsize and vsize of the camera that renders
    rendering,          \* render: building, rendering, returned or panicked
    at,                 \* render: x, y and the object intersect_world comes to next
    written,            \* render: the pixels written
    normalCall,         \* normal_at: Option of the shape, the point and the hit it is called with
    normalStage,        \* normal_at: idle, called, local, normal, returned or panicked
    local_point,        \* Shape::normal_at: Option of local_point
    local_normal,       \* Shape::normal_at: Option of local_normal
    normalResult,       \* normal_at: Option of the vector returned
    groupRay,           \* Group::intersect: Option of the ray
    invoked,            \* Group::intersect: the children whose intersect was called, in order
    gathered,           \* Group::intersect: the intersections appended so far
    groupHits,          \* Group::intersect: Option of the list returned
    worldRay,           \* intersect_world: Option of the ray
    worldCaller,        \* intersect_world: called by the test, color_at or is_shadowed
    worldOutcome,       \* intersect_world: none, returned or panicked
    worldHits,          \* the list intersect_world returned, which its caller passes to hit
    locals,             \* the caller's Shape values g1, g2 (groups) and s (a sphere)
    lastMaterial,       \* Option of the last get_material call: the shape and what it returned
    treeCalls,          \* the calls made so far that change g1, g2 or s
    compXs,             \* prepare_computations: the intersections it is given
    compSelf,           \* prepare_computations: Option of self, the hit
    compAt,             \* prepare_computations: the element of the list the loop comes to next
    containers,         \* prepare_computations: containers
    comp_n1,            \* prepare_computations: n1 in tenths
    comp_n2,            \* prepare_computations: n2 in tenths
    compStage,          \* prepare_computations: idle, loop or returned
    ppmCanvas,          \* Option of the Canvas: width, height and pixels
    ppm_data,           \* canvas_to_ppm: ppm_data, a list of characters
    pixel_color,        \* canvas_to_ppm: pixel_color, a list of characters
    ppmPos,             \* canvas_to_ppm: pos of the pixel the loop comes to next
    ppmStage,           \* canvas_to_ppm: idle, built, loop or returned
    divStack,           \* Group::divide: the calls in progress, group and child index
    divOutcome,         \* Group::divide: idle, running, returned or overflow
    raceIndex,          \* update_group_reference: the index each thread found under the read lock
    raceAt,             \* update_group_reference: where each thread is, idle or found
    raceCalls,          \* update_group_reference: the calls each thread has begun
    boundBox,           \* Bound::add_box: the box b
    boundGroup,         \* Group::bounds_of: the group whose children have empty bounds
    boundSum,           \* Bound::add_box and Group::bounds_of: the box that results
    boundCall           \* Bound::add_box and Group::bounds_of: the call made

varsHit == <<intersections, hitResult>>
varsCsg == <<operation, left_hit, inside_left_hit, inside_right_hit, allowed,
             csgInput, csgFiltered, ray, shape2Transform, csgResult>>
varsShadow == <<objects, lights, point, shadowed>>
varsColor == <<remaining0, stack, hitSurface, colorResult>>
varsCamera == <<hsize, vsize, image, render_x, render_y, writes>>
varsGroup == <<group, registry, idCount, threshold, undivided, groupCsg, extracted>>
varsMatrix == <<matrices, cachedInverses, matrixId, lastInverse>>
varsIds == <<created, sphereIdCount, cubeIdCount, calls>>
varsObj == <<vertices, normals, groups, lines_ignored, parsing, lastFace, recordsRead>>
varsScene == <<world, canvasSize, rendering, at, written>>
varsNormal == <<normalCall, normalStage, local_point, local_normal, normalResult>>
varsFold == <<groupRay, invoked, gathered, groupHits>>
varsWorld == <<worldRay, worldCaller, worldOutcome, worldHits>>
varsTree == <<locals, lastMaterial, treeCalls>>
varsComp == <<compXs, compSelf, compAt, containers, comp_n1, comp_n2, compStage>>
varsPpm == <<ppmCanvas, ppm_data, pixel_color, ppmPos, ppmStage>>
varsDivide == <<divStack, divOutcome>>
varsRace == <<raceIndex, raceAt, raceCalls>>
varsBox == <<boundBox, boundGroup, boundSum, boundCall>>
vars == <<pc, varsHit, varsCsg, varsShadow, varsColor, varsCamera, varsGroup, varsMatrix, varsIds,
         varsObj, varsScene, varsNormal, varsFold, varsWorld, varsTree, varsComp,
         varsPpm, varsDivide, varsRace, varsBox>>

\* ---------------------------------------------------------------- bounds
MaxLen == 3         \* longest list handed to Intersection::hit
MaxT == 2           \* |t| of the intersections handed to Intersection::hit
MaxHits == 4        \* longest list handed to filter_intersections
MaxObjects == 2     \* most objects added to the world
MaxDepth == 2       \* largest depth handed to the outermost color_at
MaxSize == 5        \* largest hsize and vsize of the camera
MaxShapes == 2      \* most cylinders added to the groups
MaxGroups == 2      \* most groups made before divide
MaxThreshold == 2   \* largest threshold handed to divide
MaxIds == 5         \* largest ID_COUNT at which a shape, group or CSG is made
MaxMatrices == 2    \* most matrices alive
MaxCreated == 3     \* most shapes made by constructors and clone
MaxVertices == 4    \* most v records of an OBJ file
MaxNormals == 3     \* most vn records of an OBJ file
MaxRecords == 2     \* most other lines of an OBJ file
MaxCanvas == 3      \* largest hsize and vsize of the camera that renders the scene
MaxScene == 2       \* most objects of the scene rendered
MaxCalls == 4       \* most calls that change g1, g2 or s
MaxWidth == 12      \* largest width of the canvas written as PPM
MaxHeight == 2      \* largest height of the canvas written as PPM
MaxThreads == 3     \* most threads that update the parent registry
MaxUpdates == 2     \* most calls of update_group_reference on a thread

\* --------------------------------------------------------------- helpers
None == <<>>
Some(x) == <<x>>

Fixed(n) == 2 * n

Abs(n) == IF n < 0 THEN -n ELSE n

Dot(a, b) == a[1] * b[1] + a[2] * b[2] + a[3] * b[3]

\* n / d for a divisor of either sign
Quot(n, d) == IF d < 0 THEN (-n) \div (-d) ELSE n \div d

Sqrt(n) == CHOOSE r \in 0..n : r * r = n

\* f64 values that may be infinite or NaN (Bound::check_axis, Cube::check_axis)
Fin(n) == [k |-> "fin", v |-> n]
PInf == [k |-> "pinf", v |-> 0]
NInf == [k |-> "ninf", v |-> 0]
NaN == [k |-> "nan", v |-> 0]

\* a > b on f64: false when either side is NaN
FGt(a, b) ==
    /\ a.k # "nan" /\ b.k # "nan"
    /\ \/ a.k = "pinf" /\ b.k # "pinf"
       \/ a.k = "fin" /\ b.k = "ninf"
       \/ a.k = "fin" /\ b.k = "fin" /\ a.v > b.v

\* f64::max and f64::min: a NaN operand is ignored
FMax(a, b) == IF a.k = "nan" THEN b ELSE IF b.k = "nan" THEN a
              ELSE IF FGt(b, a) THEN b ELSE a
FMin(a, b) == IF a.k = "nan" THEN b ELSE IF b.k = "nan" THEN a
              ELSE IF FGt(a, b) THEN b ELSE a

\* n * INFINITY for a finite n
TimesInfinity(n) == IF n > 0 THEN PInf ELSE IF n < 0 THEN NInf ELSE NaN

\* a stable sort by t: sort_by(|a, b| a.t.partial_cmp(&b.t))
RECURSIVE InsertByT(_, _)
InsertByT(x, s) ==
    IF s = <<>> THEN <<x>>
    ELSE IF x.t < Head(s).t THEN <<x>> \o s
    ELSE <<Head(s)>> \o InsertByT(x, Tail(s))

RECURSIVE SortByT(_)
SortByT(s) ==
    IF s = <<>> THEN <<>>
    ELSE InsertByT(s[Len(s)], SortByT(SubSeq(s, 1, Len(s) - 1)))

IsSortedByT(s) == \A i \in 1..Len(s) - 1 : s[i].t <= s[i + 1].t

Intersection(t, object) == [t |-> t, object |-> object]

\* ------------------------------------------------------ Intersection::hit
hit_nonnegative(xs) ==
    LET positive == SelectSeq(xs, LAMBDA i : i.t >= 0)
    IN  IF positive = <<>> THEN None ELSE Some(Head(positive))

hit(xs) ==
    LET positive == SelectSeq(xs, LAMBDA i : i.t > 0)
    IN  IF positive = <<>> THEN None ELSE Some(Head(positive))

HitObjects == {1, 2}

HitInputs ==
    {s \in UNION {[1..n -> [t : -MaxT..MaxT, object : HitObjects]] : n \in 0..MaxLen} :
        IsSortedByT(s)}

IdleHit == intersections = <<>> /\ hitResult = None

InitHit ==
    /\ pc = "start"
    /\ intersections \in HitInputs
    /\ hitResult = None

Hit ==
    /\ pc = "start"
    /\ hitResult' = hit(intersections)
    /\ pc' = "done"
    /\ UNCHANGED <<intersections, varsCsg, varsShadow, varsColor, varsCamera, varsGroup,
                   varsMatrix, varsIds, varsObj, varsScene, varsNormal, varsFold, varsWorld,
                   varsTree, varsComp, varsPpm, varsDivide, varsRace, varsBox>>

\* ------------------------------------------------------------------- CSG
Operations == {"union", "intersection", "difference"}

intersection_allowed_swapped(op, lhit, inl, inr) ==
    CASE op = "union" -> (lhit /\ ~inr) \/ (~lhit /\ ~inl)
      [] op = "intersection" -> (lhit /\ inl) \/ (~lhit /\ inr)
      [] op = "difference" -> (lhit /\ ~inr) \/ (~lhit /\ inl)
      [] OTHER -> FALSE

intersection_allowed(op, lhit, inl, inr) ==
    CASE op = "union" -> (lhit /\ ~inr) \/ (~lhit /\ ~inl)
      [] op = "intersection" -> (lhit /\ inr) \/ (~lhit /\ inl)
      [] op = "difference" -> (lhit /\ ~inr) \/ (~lhit /\ inl)
      [] OTHER -> FALSE


\* A transform is a translation after a uniform scaling: translate(t) * scale(s).
Transform(t, s) == [t |-> t, s |-> s]
Identity == Transform(<<0, 0, 0>>, 1)

\* 2 / EPSILON: the t, in half units, over which a drift of 1 moves a ray by a half unit
DriftSpan == 200000

\* A ray: origin / den and direction / den (den = 1 for a world ray). A component of
\* the direction is a whole number, or it is 0 with a drift: drift[i] * EPSILON / 2,
\* nonzero and below EPSILON. Sphere and Cube are handed rays without drift.
Ray(origin, direction) ==
    [origin |-> origin, direction |-> direction, den |-> 1, drift |-> <<0, 0, 0>>]

DriftRay(origin, direction, drift) ==
    [origin |-> origin, direction |-> direction, den |-> 1, drift |-> drift]

\* origin + t * direction, one component, to the nearest half unit
Position(r, i, t) ==
    r.origin[i] + t * r.direction[i] + (t * r.drift[i] + DriftSpan \div 2) \div DriftSpan

\* ray.transform(shape.transform.inverse()): p -> (p - t) / s
RayToLocal(r, m) ==
    [origin |-> <<r.origin[1] - m.t[1] * r.den, r.origin[2] - m.t[2] * r.den,
                  r.origin[3] - m.t[3] * r.den>>,
     direction |-> r.direction,
     den |-> r.den * m.s,
     drift |-> r.drift]

\* Sphere::intersect on the local ray: the unit sphere at the origin
SphereIntersect(id, r) ==
    LET sphere_to_ray == r.origin
        a == Dot(r.direction, r.direction)
        b == 2 * Dot(r.direction, sphere_to_ray)
        c == Dot(sphere_to_ray, sphere_to_ray) - Fixed(r.den) * Fixed(r.den)
        discriminant == b * b - 4 * a * c
    IN  IF discriminant < 0 THEN <<>>
        ELSE <<Intersection((-b - Sqrt(discriminant)) \div (2 * a), id),
               Intersection((-b + Sqrt(discriminant)) \div (2 * a), id)>>

\* Cube::check_axis on the local ray: the slab [-1, 1]
CubeCheckAxis(origin, direction, den) ==
    LET tmin_numerator == -Fixed(den) - origin
        tmax_numerator == Fixed(den) - origin
        tmin == IF direction # 0 THEN Fin(Quot(tmin_numerator, direction))
                ELSE TimesInfinity(tmin_numerator)
        tmax == IF direction # 0 THEN Fin(Quot(tmax_numerator, direction))
                ELSE TimesInfinity(tmax_numerator)
    IN  IF FGt(tmin, tmax) THEN <<tmax, tmin>> ELSE <<tmin, tmax>>

CubeIntersect(id, r) ==
    LET x == CubeCheckAxis(r.origin[1], r.direction[1], r.den)
        y == CubeCheckAxis(r.origin[2], r.direction[2], r.den)
        z == CubeCheckAxis(r.origin[3], r.direction[3], r.den)
        tmin == FMax(FMax(FMax(NaN, x[1]), y[1]), z[1])
        tmax == FMin(FMin(FMin(NaN, x[2]), y[2]), z[2])
    IN  IF FGt(tmin, tmax) THEN <<>>
        ELSE <<Intersection(tmin.v, id), Intersection(tmax.v, id)>>

Primitive(kind, id, transform) ==
    [kind |-> kind, id |-> id, transform |-> transform]

\* Shape::intersect of a primitive: to the shape's space, then the variant's kernel
PrimitiveIntersect(shape, r) ==
    LET local_ray == RayToLocal(r, shape.transform)
    IN  CASE shape.kind = "Sphere" -> SphereIntersect(shape.id, local_ray)
          [] shape.kind = "Cube" -> CubeIntersect(shape.id, local_ray)

\* Shape::includes of a primitive: membership by id
Includes(shape, object) == shape.id = object

\* CSG::new(operation, left, right)
CSG(op, left, right) == [operation |-> op, left |-> left, right |-> right]

RECURSIVE FilterKeptToggle(_, _, _, _, _)
FilterKeptToggle(csg, xs, inl, inr, result) ==
    IF xs = <<>> THEN result
    ELSE LET lhit == Includes(csg.left, Head(xs).object)
             keep == intersection_allowed(csg.operation, lhit, inl, inr)
         IN  FilterKeptToggle(csg, Tail(xs),
                 IF keep /\ lhit THEN ~inl ELSE inl,
                 IF keep /\ ~lhit THEN ~inr ELSE inr,
                 IF keep THEN Append(result, Head(xs)) ELSE result)

filter_intersections_kept_toggle(csg, xs) ==
    FilterKeptToggle(csg, xs, FALSE, FALSE, <<>>)

RECURSIVE FilterLoop(_, _, _, _, _)
FilterLoop(csg, xs, inl, inr, result) ==
    IF xs = <<>> THEN result
    ELSE LET lhit == Includes(csg.left, Head(xs).object)
             keep == intersection_allowed(csg.operation, lhit, inl, inr)
         IN  FilterLoop(csg, Tail(xs),
                 IF lhit THEN ~inl ELSE inl,
                 IF lhit THEN inr ELSE ~inr,
                 IF keep THEN Append(result, Head(xs)) ELSE result)

filter_intersections(csg, xs) == FilterLoop(csg, xs, FALSE, FALSE, <<>>)

csg_intersect_unsorted(csg, r) ==
    filter_intersections(csg,
        PrimitiveIntersect(csg.left, r) \o PrimitiveIntersect(csg.right, r))

csg_intersect(csg, r) ==
    filter_intersections(csg,
        SortByT(PrimitiveIntersect(csg.left, r) \o PrimitiveIntersect(csg.right, r)))

\* The two shapes of the CSG under test: a unit sphere and a translated unit cube.
shape1 == Primitive("Sphere", 1, Identity)
shape2(t) == Primitive("Cube", 2, Transform(t, 1))

CsgInputs ==
    UNION {[1..n -> {Intersection(0, shape1.id), Intersection(0, shape2(<<0, 0, 0>>).id)}] : n \in 0..MaxHits}

\* a walk down the list gives the k-th hit t = k, so the list is sorted
Timed(xs) == [k \in 1..Len(xs) |-> Intersection(k, xs[k].object)]

CsgRays ==
    {Ray(<<x, 0, z>>, <<0, 0, dz>>) :
        x \in {0, Fixed(1), Fixed(2)}, z \in {Fixed(-5), Fixed(5)}, dz \in {-1, 1}}

CsgTranslations == {<<0, 0, 0>>, <<0, 0, 1>>}

IdleCsg ==
    /\ operation = "union"
    /\ left_hit = FALSE /\ inside_left_hit = FALSE /\ inside_right_hit = FALSE
    /\ allowed = None
    /\ csgInput = <<>> /\ csgFiltered = None
    /\ ray = Ray(<<0, 0, 0>>, <<0, 0, 1>>)
    /\ shape2Transform = <<0, 0, 0>>
    /\ csgResult = None

InitCsg ==
    /\ pc = "start"
    /\ operation \in Operations
    /\ left_hit \in BOOLEAN /\ inside_left_hit \in BOOLEAN /\ inside_right_hit \in BOOLEAN
    /\ allowed = None
    /\ csgInput \in {Timed(xs) : xs \in CsgInputs}
    /\ csgFiltered = None
    /\ ray \in CsgRays
    /\ shape2Transform \in CsgTranslations
    /\ csgResult = None

IntersectionAllowed ==
    /\ allowed = None
    /\ allowed' = Some(intersection_allowed(operation, left_hit, inside_left_hit,
                                            inside_right_hit))
    /\ UNCHANGED <<pc, varsHit, varsShadow, varsColor, varsCamera, varsGroup, operation,
                   left_hit, inside_left_hit, inside_right_hit, csgInput, csgFiltered, ray,
                   shape2Transform, csgResult, varsMatrix, varsIds, varsObj, varsScene,
                   varsNormal, varsFold, varsWorld, varsTree, varsComp, varsPpm, varsDivide,
                   varsRace, varsBox>>

FilterIntersections ==
    /\ csgFiltered = None
    /\ csgFiltered' = Some(filter_intersections(
                              CSG(operation, shape1, shape2(shape2Transform)), csgInput))
    /\ UNCHANGED <<pc, varsHit, varsShadow, varsColor, varsCamera, varsGroup, operation,
                   left_hit, inside_left_hit, inside_right_hit, allowed, csgInput, ray,
                   shape2Transform, csgResult, varsMatrix, varsIds, varsObj, varsScene,
                   varsNormal, varsFold, varsWorld, varsTree, varsComp, varsPpm, varsDivide,
                   varsRace, varsBox>>

CsgIntersect ==
    /\ csgResult = None
    /\ csgResult' = Some(csg_intersect(
                            CSG(operation, shape1, shape2(shape2Transform)), ray))
    /\ UNCHANGED <<pc, varsHit, varsShadow, varsColor, varsCamera, varsGroup, operation,
                   left_hit, inside_left_hit, inside_right_hit, allowed, csgInput, csgFiltered,
                   ray, shape2Transform, varsMatrix, varsIds, varsObj, varsScene, varsNormal,
                   varsFold, varsWorld, varsTree, varsComp, varsPpm, varsDivide, varsRace,
                   varsBox>>

\* ---------------------------------------------------------------- claims
PositiveIndices(xs) == {k \in 1..Len(xs) : xs[k].t > 0}
MinOf(S) == CHOOSE m \in S : \A k \in S : m <= k

\* C1: on a list sorted by t, hit returns the first element with t > 0, which has
\* the smallest t of the elements with t > 0; it returns None when there is none;
\* an element with t <= 0 is never returned.
C1_HitIsLeastPositive ==
    pc = "done" =>
        LET P == PositiveIndices(intersections)
        IN  IF P = {} THEN hitResult = None
            ELSE /\ hitResult = Some(intersections[MinOf(P)])
                 /\ hitResult[1].t > 0
                 /\ \A k \in P : hitResult[1].t <= intersections[k].t

C1_Witness ==
    /\ pc = "done"
    /\ \E k \in 1..Len(intersections) : intersections[k].t = 0
    /\ Cardinality(PositiveIndices(intersections)) >= 2
    /\ hitResult # None

\* C2: intersection_allowed is, for union, (hit_left and not inside_right) or (not
\* hit_left and not inside_left); for intersection, (hit_left and inside_right) or
\* (not hit_left and inside_left); for difference, (hit_left and not inside_right)
\* or (not hit_left and inside_left).
C2_AllowedTruthTable ==
    allowed # None =>
        /\ operation = "union" =>
              allowed[1] = ((left_hit /\ ~inside_right_hit) \/ (~left_hit /\ ~inside_left_hit))
        /\ operation = "intersection" =>
              allowed[1] = ((left_hit /\ inside_right_hit) \/ (~left_hit /\ inside_left_hit))
        /\ operation = "difference" =>
              allowed[1] = ((left_hit /\ ~inside_right_hit) \/ (~left_hit /\ inside_left_hit))

C2_Witness ==
    /\ allowed = Some(TRUE)
    /\ operation = "intersection"
    /\ left_hit /\ inside_right_hit /\ ~inside_left_hit

\* the flag of a side before the k-th hit: an odd number of earlier hits on that side
OnLeft(xs, k) == xs[k].object = shape1.id
InsideBefore(xs, k, left) ==
    Cardinality({j \in 1..k - 1 : OnLeft(xs, j) = left}) % 2 = 1
KeptIndices(op, xs) ==
    {k \in 1..Len(xs) :
        intersection_allowed(op, OnLeft(xs, k), InsideBefore(xs, k, TRUE),
                             InsideBefore(xs, k, FALSE))}
RECURSIVE Pick(_, _, _)
Pick(xs, K, k) ==
    IF k > Len(xs) THEN <<>>
    ELSE (IF k \in K THEN <<xs[k]>> ELSE <<>>) \o Pick(xs, K, k + 1)
Alternating(xs) ==
    /\ Len(xs) = 4
    /\ OnLeft(xs, 1) /\ ~OnLeft(xs, 2) /\ OnLeft(xs, 3) /\ ~OnLeft(xs, 4)

\* C3: filter_intersections keeps exactly the hits that intersection_allowed admits
\* for the flags as they were before the hit, both flags starting false and the flag
\* of a hit's side toggling after every hit of that side, kept or dropped; the kept
\* hits come in input order; of hits alternating left, right, left, right it keeps
\* 1 and 4 for union, 2 and 3 for intersection, 1 and 2 for difference.
C3_FilterWalk ==
    csgFiltered # None =>
        /\ csgFiltered[1] = Pick(csgInput, KeptIndices(operation, csgInput), 1)
        /\ Alternating(csgInput) =>
              csgFiltered[1] =
                CASE operation = "union" -> <<csgInput[1], csgInput[4]>>
                  [] operation = "intersection" -> <<csgInput[2], csgInput[3]>>
                  [] operation = "difference" -> <<csgInput[1], csgInput[2]>>

C3_Witness ==
    /\ csgFiltered # None
    /\ Alternating(csgInput)
    /\ operation = "intersection"
    /\ Len(csgFiltered[1]) = 2

\* the scenario: the ray from (0,0,-5) along (0,0,1), the cube translated to z = 0.5
C4_Scenario ==
    /\ ray = Ray(<<0, 0, Fixed(-5)>>, <<0, 0, 1>>)
    /\ shape2Transform = <<0, 0, 1>>
    /\ csgResult # None

\* C4 as stated: CSG(difference, sphere, cube).intersect yields exactly the hits
\* t = 4.0 on the sphere and t = 6.5 on the cube, in that order.
C4_DifferenceYields4And6_5 ==
    C4_Scenario /\ operation = "difference" =>
        csgResult[1] = <<Intersection(8, shape1.id), Intersection(13, 2)>>

\* C4 as amended: the difference yields exactly t = 4.0 on the sphere and t = 4.5 on
\* the cube, in that order; t = 4.0 and t = 6.5 are the hits of the union.
C4_DifferenceYields4And4_5 ==
    C4_Scenario =>
        /\ operation = "difference" =>
              csgResult[1] = <<Intersection(8, shape1.id), Intersection(9, 2)>>
        /\ operation = "union" =>
              csgResult[1] = <<Intersection(8, shape1.id), Intersection(13, 2)>>

C4_Witness == C4_Scenario /\ operation = "difference" /\ Len(csgResult[1]) = 2


\* ------------------------------------------------------ World::is_shadowed
Light(position) == [position |-> position]

\* a sphere of the world: Sphere::new, set_transform(translate), set_casts_shadow
WorldSphere(id, t, casts_shadow) ==
    [kind |-> "Sphere", id |-> id, transform |-> Transform(t, 1),
     casts_shadow |-> casts_shadow]

RECURSIVE ConcatIntersections(_, _)
ConcatIntersections(shapes, r) ==
    IF shapes = <<>> THEN <<>>
    ELSE PrimitiveIntersect(Head(shapes), r) \o ConcatIntersections(Tail(shapes), r)

\* intersect_world that returns the fold as it is
intersect_world_unsorted(objs, r) == ConcatIntersections(objs, r)

\* World::intersect_world: the fold over self.objects, then sort_by t
intersect_world(objs, r) == SortByT(ConcatIntersections(objs, r))

ObjectById(objs, id) == CHOOSE o \in {objs[k] : k \in 1..Len(objs)} : o.id = id

\* (light.position - point): its magnitude and its normalization, for a vector
\* along one axis
Sub(a, b) == <<a[1] - b[1], a[2] - b[2], a[3] - b[3]>>
Magnitude(v) == Sqrt(Dot(v, v))
Sign(n) == IF n > 0 THEN 1 ELSE IF n < 0 THEN -1 ELSE 0
Normalize(v) == <<Sign(v[1]), Sign(v[2]), Sign(v[3])>>

ShadowRay(light, p) == Ray(p, Normalize(Sub(light.position, p)))

is_shadowed_for(objs, light, p) ==
    LET vector == Sub(light.position, p)
        distance == Magnitude(vector)
        h == hit(intersect_world(objs, ShadowRay(light, p)))
    IN  IF h = None THEN FALSE
        ELSE h[1].t < distance /\ ObjectById(objs, h[1].object).casts_shadow

is_shadowed(objs, ls, p) == [k \in 1..Len(ls) |-> is_shadowed_for(objs, ls[k], p)]

\* centers of the spheres of the world, on the y axis
SphereCenters == {Fixed(-3), Fixed(3), Fixed(6), Fixed(10), Fixed(13)}

IdleShadow ==
    /\ objects = <<>>
    /\ lights = <<>>
    /\ point = <<0, 0, 0>>
    /\ shadowed = None

InitShadow ==
    /\ pc = "start"
    /\ objects = <<>>
    /\ lights = <<Light(<<0, Fixed(10), 0>>)>>
    /\ point = <<0, 0, 0>>
    /\ shadowed = None

\* world.objects.push(sphere)
AddObject ==
    /\ Len(objects) < MaxObjects
    /\ \E c \in SphereCenters, casts \in BOOLEAN :
          objects' = Append(objects, WorldSphere(Len(objects) + 1, <<0, c, 0>>, casts))
    /\ shadowed' = None
    /\ UNCHANGED <<pc, lights, point, varsHit, varsCsg, varsColor, varsCamera, varsGroup,
                   varsMatrix, varsIds, varsObj, varsScene, varsNormal, varsFold, varsWorld,
                   varsTree, varsComp, varsPpm, varsDivide, varsRace, varsBox>>

IsShadowed ==
    /\ shadowed = None
    /\ shadowed' = Some(is_shadowed(objects, lights, point))
    /\ UNCHANGED <<pc, objects, lights, point, varsHit, varsCsg, varsColor, varsCamera,
                   varsGroup, varsMatrix, varsIds, varsObj, varsScene, varsNormal, varsFold,
                   varsWorld, varsTree, varsComp, varsPpm, varsDivide, varsRace, varsBox>>

\* an object with casts_shadow = true has a hit with 0 < t < distance on the
\* segment from the point to the light
Occluded(objs, light, p) ==
    \E k \in 1..Len(objs) :
        /\ objs[k].casts_shadow
        /\ LET xs == PrimitiveIntersect(objs[k], ShadowRay(light, p))
           IN  \E j \in 1..Len(xs) :
                   xs[j].t > 0 /\ xs[j].t < Magnitude(Sub(light.position, p))

\* C5: is_shadowed is false for a light when no object with casts_shadow = true
\* intersects the segment from the point to the light, and true as soon as the
\* world holds such an object, whatever else it holds.
C5_ShadowIffOccluder ==
    shadowed # None =>
        \A k \in 1..Len(lights) : shadowed[1][k] = Occluded(objects, lights[k], point)

\* ----------------------------------------------------------- World::color_at
BLACK == 0

\* the surface colors material.lighting sums to, the reflective and the
\* transparency values of the materials of the world
Surfaces == {BLACK, 1}
Reflectives == {0, 1}
Transparencies == {0, 1}

Frame(remaining) ==
    [remaining |-> remaining, at |-> "color_at", surface |-> BLACK,
     reflective |-> 0, transparency |-> 0, reflected |-> BLACK, refracted |-> BLACK]

Top == stack[Len(stack)]
SetTop(f) == [stack EXCEPT ![Len(stack)] = f]

\* a call deeper than this overflows the call stack
StackLimit == MaxDepth + 3

same_depth(f) == f.remaining

\* the depth reflected_color and refracted_color hand to color_at
deeper(f) == f.remaining - 1

reflected_black_no_depth(f) == f.reflective = 0

\* reflected_color returns BLACK without calling color_at
reflected_black(f) == f.reflective = 0 \/ f.remaining <= 0

refracted_black_no_depth(f) == f.transparency = 0

\* refracted_color returns BLACK without calling color_at (before sin2_t is looked at)
refracted_black(f) == f.transparency = 0 \/ f.remaining <= 0

\* the color a finished call returns goes to its caller, or is the result
Return(color) ==
    IF Len(stack) = 1
    THEN /\ stack' = <<>>
         /\ colorResult' = Some(color)
         /\ pc' = "done"
    ELSE LET caller == stack[Len(stack) - 1]
             rest == SubSeq(stack, 1, Len(stack) - 2)
         IN  /\ stack' =
                   IF caller.at = "reflected_color"
                   THEN Append(rest, [caller EXCEPT !.reflected = color * caller.reflective,
                                                    !.at = "refracted_color"])
                   ELSE Append(rest, [caller EXCEPT !.refracted = color * caller.transparency,
                                                    !.at = "shade_hit"])
             /\ UNCHANGED <<colorResult, pc>>

IdleColor ==
    /\ remaining0 = 0
    /\ stack = <<>>
    /\ hitSurface = None
    /\ colorResult = None

InitColor ==
    /\ pc = "start"
    /\ remaining0 \in -1..MaxDepth
    /\ stack = <<>>
    /\ hitSurface = None
    /\ colorResult = None

\* world.color_at(ray, remaining0)
ColorAtCall ==
    /\ pc = "start"
    /\ stack' = <<Frame(remaining0)>>
    /\ pc' = "color_at"
    /\ UNCHANGED <<remaining0, hitSurface, colorResult, varsHit, varsCsg, varsShadow,
                   varsCamera, varsGroup, varsMatrix, varsIds, varsObj, varsScene, varsNormal,
                   varsFold, varsWorld, varsTree, varsComp, varsPpm, varsDivide, varsRace,
                   varsBox>>

\* color_at: intersect_world and hit find nothing
ColorAtMiss ==
    /\ pc = "color_at" /\ Top.at = "color_at"
    /\ Return(BLACK)
    /\ UNCHANGED <<remaining0, hitSurface, varsHit, varsCsg, varsShadow, varsCamera, varsGroup,
                   varsMatrix, varsIds, varsObj, varsScene, varsNormal, varsFold, varsWorld,
                   varsTree, varsComp, varsPpm, varsDivide, varsRace, varsBox>>

\* color_at: a hit; shade_hit sums the lighting of the hit's material to surface
ColorAtHit ==
    /\ pc = "color_at" /\ Top.at = "color_at"
    /\ \E s \in Surfaces, r \in Reflectives, t \in Transparencies :
          /\ stack' = SetTop([Top EXCEPT !.surface = s, !.reflective = r,
                                         !.transparency = t, !.at = "reflected_color"])
          /\ hitSurface' = IF Len(stack) = 1 THEN Some(s) ELSE hitSurface
    /\ UNCHANGED <<pc, remaining0, colorResult, varsHit, varsCsg, varsShadow, varsCamera,
                   varsGroup, varsMatrix, varsIds, varsObj, varsScene, varsNormal, varsFold,
                   varsWorld, varsTree, varsComp, varsPpm, varsDivide, varsRace, varsBox>>

\* reflected_color returns BLACK at once
ReflectedBlack ==
    /\ pc = "color_at" /\ Top.at = "reflected_color"
    /\ reflected_black(Top)
    /\ stack' = SetTop([Top EXCEPT !.reflected = BLACK, !.at = "refracted_color"])
    /\ UNCHANGED <<pc, remaining0, hitSurface, colorResult, varsHit, varsCsg, varsShadow,
                   varsCamera, varsGroup, varsMatrix, varsIds, varsObj, varsScene, varsNormal,
                   varsFold, varsWorld, varsTree, varsComp, varsPpm, varsDivide, varsRace,
                   varsBox>>

\* reflected_color calls color_at(reflect_ray, remaining - 1)
ReflectedCall ==
    /\ pc = "color_at" /\ Top.at = "reflected_color"
    /\ ~reflected_black(Top)
    /\ Len(stack) < StackLimit
    /\ stack' = Append(stack, Frame(deeper(Top)))
    /\ UNCHANGED <<pc, remaining0, hitSurface, colorResult, varsHit, varsCsg, varsShadow,
                   varsCamera, varsGroup, varsMatrix, varsIds, varsObj, varsScene, varsNormal,
                   varsFold, varsWorld, varsTree, varsComp, varsPpm, varsDivide, varsRace,
                   varsBox>>

\* refracted_color returns BLACK at once
RefractedBlack ==
    /\ pc = "color_at" /\ Top.at = "refracted_color"
    /\ refracted_black(Top)
    /\ stack' = SetTop([Top EXCEPT !.refracted = BLACK, !.at = "shade_hit"])
    /\ UNCHANGED <<pc, remaining0, hitSurface, colorResult, varsHit, varsCsg, varsShadow,
                   varsCamera, varsGroup, varsMatrix, varsIds, varsObj, varsScene, varsNormal,
                   varsFold, varsWorld, varsTree, varsComp, varsPpm, varsDivide, varsRace,
                   varsBox>>

\* refracted_color returns BLACK under total internal reflection (sin2_t > 1)
TotalInternalReflection ==
    /\ pc = "color_at" /\ Top.at = "refracted_color"
    /\ ~refracted_black(Top)
    /\ stack' = SetTop([Top EXCEPT !.refracted = BLACK, !.at = "shade_hit"])
    /\ UNCHANGED <<pc, remaining0, hitSurface, colorResult, varsHit, varsCsg, varsShadow,
                   varsCamera, varsGroup, varsMatrix, varsIds, varsObj, varsScene, varsNormal,
                   varsFold, varsWorld, varsTree, varsComp, varsPpm, varsDivide, varsRace,
                   varsBox>>

\* refracted_color calls color_at(refract_ray, remaining - 1)
RefractedCall ==
    /\ pc = "color_at" /\ Top.at = "refracted_color"
    /\ ~refracted_black(Top)
    /\ Len(stack) < StackLimit
    /\ stack' = Append(stack, Frame(deeper(Top)))
    /\ UNCHANGED <<pc, remaining0, hitSurface, colorResult, varsHit, varsCsg, varsShadow,
                   varsCamera, varsGroup, varsMatrix, varsIds, varsObj, varsScene, varsNormal,
                   varsFold, varsWorld, varsTree, varsComp, varsPpm, varsDivide, varsRace,
                   varsBox>>

\* shade_hit returns: with the Schlick reflectance (0 or 1 here) when the material
\* is both reflective and transparent, the plain sum otherwise
ShadeHitReturn ==
    /\ pc = "color_at" /\ Top.at = "shade_hit"
    /\ \E reflectance \in {0, 1} :
          IF Top.reflective > 0 /\ Top.transparency > 0
          THEN Return(Top.surface + Top.reflected * reflectance
                      + Top.refracted * (1 - reflectance))
          ELSE Return(Top.surface + Top.reflected + Top.refracted)
    /\ UNCHANGED <<remaining0, hitSurface, varsHit, varsCsg, varsShadow, varsCamera, varsGroup,
                   varsMatrix, varsIds, varsObj, varsScene, varsNormal, varsFold, varsWorld,
                   varsTree, varsComp, varsPpm, varsDivide, varsRace, varsBox>>

\* C6 as stated: color_at(ray, depth) returns BLACK whenever depth <= 0.
C6_BlackWhenDepthExhausted ==
    pc = "done" /\ remaining0 <= 0 => colorResult = Some(BLACK)

\* C6 as amended: color_at(ray, depth) with depth <= 0 makes no further color_at
\* call; it returns BLACK when the ray hits nothing and otherwise the surface color
\* shade_hit sums for the hit, the reflected and refracted colors being BLACK.
C6_SurfaceWhenDepthExhausted ==
    remaining0 <= 0 =>
        /\ Len(stack) <= 1
        /\ pc = "done" =>
              colorResult = IF hitSurface = None THEN Some(BLACK) ELSE hitSurface

C6_Witness ==
    /\ pc = "done"
    /\ remaining0 = 0
    /\ hitSurface = Some(1)
    /\ colorResult = Some(1)

\* C7: color_at(ray, d) terminates, and for d >= 0 at most d + 1 color_at calls are
\* nested, each called with one less than its caller.
C7_ColorAtTerminates ==
    /\ [](remaining0 >= 0 =>
            /\ Len(stack) <= remaining0 + 1
            /\ \A i \in 1..Len(stack) : stack[i].remaining = remaining0 - (i - 1))
    /\ <>(pc = "done")

\* two facing mirrors: every call under way is a reflection off a mirror, and the
\* innermost call has depth 0
C7_Witness ==
    /\ remaining0 >= 1
    /\ Len(stack) = remaining0 + 1
    /\ \A i \in 1..Len(stack) - 1 :
          stack[i].reflective = 1 /\ stack[i].at = "reflected_color"
    /\ Top.remaining = 0 /\ Top.reflective = 1 /\ Top.at = "refracted_color"

\* ------------------------------------------------------------ Camera::render
\* Canvas::new(width, height)
Canvas(width, height) == [k \in 1..width * height |-> BLACK]

\* Canvas::write_pixel and Canvas::pixel_at
WritePixel(canvas, width, px, py, color) == [canvas EXCEPT ![py * width + px + 1] = color]
PixelAt(canvas, width, px, py) == canvas[py * width + px + 1]

\* world.color_at(self.ray_for_pixel(px, py)): a color of the pixel's own, not BLACK
ColorOfPixel(px, py) == 1 + px + py * MaxSize

IdleCamera ==
    /\ hsize = 1 /\ vsize = 1
    /\ image = <<>>
    /\ render_x = 0 /\ render_y = 0
    /\ writes = <<>>

InitCamera ==
    /\ pc = "start"
    /\ hsize \in 1..MaxSize /\ vsize \in 1..MaxSize
    /\ image = <<>>
    /\ render_x = 0 /\ render_y = 0
    /\ writes = <<>>

\* render: the canvas is made and the row loop starts
RenderStart ==
    /\ pc = "start"
    /\ image' = Canvas(hsize, vsize)
    /\ render_y' = 0 /\ render_x' = 0
    /\ pc' = "render"
    /\ UNCHANGED <<hsize, vsize, writes, varsHit, varsCsg, varsShadow, varsColor, varsGroup,
                   varsMatrix, varsIds, varsObj, varsScene, varsNormal, varsFold, varsWorld,
                   varsTree, varsComp, varsPpm, varsDivide, varsRace, varsBox>>

\* for x in 0..self.hsize - 1: one pixel
RenderPixel ==
    /\ pc = "render"
    /\ render_y < vsize - 1 /\ render_x < hsize - 1
    /\ image' = WritePixel(image, hsize, render_x, render_y, ColorOfPixel(render_x, render_y))
    /\ writes' = Append(writes, <<render_x, render_y>>)
    /\ render_x' = render_x + 1
    /\ UNCHANGED <<pc, hsize, vsize, render_y, varsHit, varsCsg, varsShadow, varsColor,
                   varsGroup, varsMatrix, varsIds, varsObj, varsScene, varsNormal, varsFold,
                   varsWorld, varsTree, varsComp, varsPpm, varsDivide, varsRace, varsBox>>

\* for y in 0..self.vsize - 1: the column loop is over, the next row
RenderRow ==
    /\ pc = "render"
    /\ render_y < vsize - 1 /\ ~(render_x < hsize - 1)
    /\ render_y' = render_y + 1 /\ render_x' = 0
    /\ UNCHANGED <<pc, hsize, vsize, image, writes, varsHit, varsCsg, varsShadow, varsColor,
                   varsGroup, varsMatrix, varsIds, varsObj, varsScene, varsNormal, varsFold,
                   varsWorld, varsTree, varsComp, varsPpm, varsDivide, varsRace, varsBox>>

\* the row loop is over: render returns the image
RenderReturn ==
    /\ pc = "render"
    /\ ~(render_y < vsize - 1)
    /\ pc' = "done"
    /\ UNCHANGED <<hsize, vsize, image, render_x, render_y, writes, varsHit, varsCsg,
                   varsShadow, varsColor, varsGroup, varsMatrix, varsIds, varsObj, varsScene,
                   varsNormal, varsFold, varsWorld, varsTree, varsComp, varsPpm, varsDivide,
                   varsRace, varsBox>>

\* the pixels in row-major order
RowMajor(w, h) == [k \in 1..w * h |-> <<(k - 1) % w, (k - 1) \div w>>]

\* C8: render writes the color of the ray through (x, y) to pixel (x, y) for every
\* x in 0..hsize-1 and y in 0..vsize-1, each pixel once, rows outer, columns inner.
C8_RenderWritesEveryPixel ==
    pc = "done" =>
        /\ \A px \in 0..hsize - 1, py \in 0..vsize - 1 :
              PixelAt(image, hsize, px, py) = ColorOfPixel(px, py)
        /\ writes = RowMajor(hsize, vsize)

\* -------------------------------------------------------------------- Bound
\* f64 arithmetic on values that may be infinite or NaN
FNeg(a) ==
    CASE a.k = "fin" -> Fin(-a.v)
      [] a.k = "pinf" -> NInf
      [] a.k = "ninf" -> PInf
      [] OTHER -> NaN

FAdd(a, b) ==
    IF a.k = "nan" \/ b.k = "nan" THEN NaN
    ELSE IF a.k = "fin" /\ b.k = "fin" THEN Fin(a.v + b.v)
    ELSE IF a.k = "fin" THEN b
    ELSE IF b.k = "fin" THEN a
    ELSE IF a.k = b.k THEN a
    ELSE NaN

FSub(a, b) == FAdd(a, FNeg(b))

FAbs(a) == IF a.k = "ninf" THEN PInf ELSE IF a.k = "fin" THEN Fin(Abs(a.v)) ELSE a

\* n * a and a / n for a finite n
FTimes(n, a) ==
    IF a.k = "nan" THEN NaN
    ELSE IF a.k = "fin" THEN Fin(n * a.v)
    ELSE IF n = 0 THEN NaN
    ELSE IF n > 0 THEN a
    ELSE FNeg(a)

FQuot(a, n) ==
    IF a.k = "fin" THEN Fin(Quot(a.v, n))
    ELSE IF n > 0 THEN a
    ELSE FNeg(a)

\* a * INFINITY
FTimesInfinity(a) == IF a.k = "fin" THEN TimesInfinity(a.v) ELSE a

\* near_eq(a, b): |a - b| < EPSILON, false when the difference is infinite or NaN
near_eq(a, b) ==
    LET difference == FAbs(FSub(a, b))
    IN  difference.k = "fin" /\ difference.v = 0

\* Bound::bounding_box_init
Bound(minimum, maximum) == [minimum |-> minimum, maximum |-> maximum]

bounding_box_empty == Bound(<<PInf, PInf, PInf>>, <<NInf, NInf, NInf>>)

\* if point.x < self.minimum.x { self.minimum.x = point.x }, and the like
Lower(minimum, p) == IF FGt(minimum, p) THEN p ELSE minimum
Upper(maximum, p) == IF FGt(p, maximum) THEN p ELSE maximum

add_point(box, p) ==
    [box EXCEPT !.minimum = <<Lower(@[1], p[1]), Lower(@[2], p[2]), Lower(@[3], p[3])>>,
                !.maximum = <<Upper(@[1], p[1]), Upper(@[2], p[2]), Upper(@[3], p[3])>>]

add_box(box, other) == add_point(add_point(box, other.minimum), other.maximum)

box_contains_point(box, p) ==
    \A i \in 1..3 :
        \/ near_eq(box.minimum[i], p[i])
        \/ near_eq(box.maximum[i], p[i])
        \/ FGt(p[i], box.minimum[i]) /\ FGt(box.maximum[i], p[i])

box_contains_box(box, other) ==
    box_contains_point(box, other.minimum) /\ box_contains_point(box, other.maximum)

\* matrix * point for the matrix of translate(t) * scale(s): row i is s at column
\* i, 0 at the other two columns and t[i] at the last, and the point's w is 1
MatrixTimesPoint(m, p) ==
    <<FAdd(FAdd(FAdd(FTimes(m.s, p[1]), FTimes(0, p[2])), FTimes(0, p[3])), Fin(m.t[1])),
      FAdd(FAdd(FAdd(FTimes(0, p[1]), FTimes(m.s, p[2])), FTimes(0, p[3])), Fin(m.t[2])),
      FAdd(FAdd(FAdd(FTimes(0, p[1]), FTimes(0, p[2])), FTimes(m.s, p[3])), Fin(m.t[3]))>>

RECURSIVE AddPoints(_, _, _)
AddPoints(box, points, m) ==
    IF points = <<>> THEN box
    ELSE AddPoints(add_point(box, MatrixTimesPoint(m, Head(points))), Tail(points), m)

\* Bound::transform: the box of the eight transformed corners
BoundTransform(box, m) ==
    LET lo == box.minimum
        hi == box.maximum
        points == << lo,
                     <<lo[1], lo[2], hi[3]>>,
                     <<lo[1], hi[2], lo[3]>>,
                     <<lo[1], hi[2], hi[3]>>,
                     <<hi[1], lo[2], lo[3]>>,
                     <<hi[1], lo[2], hi[3]>>,
                     <<hi[1], hi[2], lo[3]>>,
                     hi >>
    IN  AddPoints(bounding_box_empty, points, m)

\* Bound::check_axis for a ray of origin / den and direction / den. A direction
\* component of the model is at least EPSILON in magnitude exactly when it is not 0.
BoundCheckAxis(origin, direction, den, minimum, maximum) ==
    LET tmin_numerator == FSub(FTimes(den, minimum), Fin(origin))
        tmax_numerator == FSub(FTimes(den, maximum), Fin(origin))
        tmin == IF direction # 0 THEN FQuot(tmin_numerator, direction)
                ELSE FTimesInfinity(tmin_numerator)
        tmax == IF direction # 0 THEN FQuot(tmax_numerator, direction)
                ELSE FTimesInfinity(tmax_numerator)
    IN  IF FGt(tmin, tmax) THEN <<tmax, tmin>> ELSE <<tmin, tmax>>

\* Bound::intersects
intersects(box, r) ==
    LET xt == BoundCheckAxis(r.origin[1], r.direction[1], r.den, box.minimum[1], box.maximum[1])
        yt == BoundCheckAxis(r.origin[2], r.direction[2], r.den, box.minimum[2], box.maximum[2])
        zt == BoundCheckAxis(r.origin[3], r.direction[3], r.den, box.minimum[3], box.maximum[3])
        tmin == FMax(FMax(FMax(NaN, xt[1]), yt[1]), zt[1])
        tmax == FMin(FMin(FMin(NaN, xt[2]), yt[2]), zt[2])
    IN  ~FGt(tmin, tmax)

\* Bound::split_bounds: the two boxes once the axis and the middle are known
SplitAt(box, axis, middle) ==
    <<Bound(box.minimum, [box.maximum EXCEPT ![axis] = middle]),
      Bound([box.minimum EXCEPT ![axis] = middle], box.maximum)>>

\* Bound::split_bounds: the axis of the greatest extent
SplitAxis(dx, dy, greatest) ==
    IF near_eq(greatest, dx) THEN 1 ELSE IF near_eq(greatest, dy) THEN 2 ELSE 3

SplitAlong(box, extent, axis) ==
    SplitAt(box, axis, FAdd(box.minimum[axis], FQuot(extent[axis], 2)))

SplitExtent(box, dx, dy, dz) ==
    SplitAlong(box, <<dx, dy, dz>>, SplitAxis(dx, dy, FMax(FMax(FMax(NaN, dx), dy), dz)))

\* Bound::split_bounds
split_bounds(box) ==
    SplitExtent(box, FAbs(FSub(box.maximum[1], box.minimum[1])),
                     FAbs(FSub(box.maximum[2], box.minimum[2])),
                     FAbs(FSub(box.maximum[3], box.minimum[3])))

\* -------------------------------------------------------------------- Group
\* Cylinder::new() with minimum, maximum and closed set, and a transform
Cylinder(id, transform) ==
    [kind |-> "Cylinder", id |-> id, transform |-> transform, parent |-> None,
     minimum |-> Fixed(-1), maximum |-> Fixed(1), closed |-> TRUE, shapes |-> <<>>]

\* Group::new()
Group(id) ==
    [kind |-> "Group", id |-> id, transform |-> Identity, parent |-> None, shapes |-> <<>>]

\* Cylinder::check_cap
check_cap(r, t) ==
    LET px == Position(r, 1, t)
        pz == Position(r, 3, t)
    IN  px * px + pz * pz <= Fixed(r.den) * Fixed(r.den)

\* Cylinder::intersect_caps
intersect_caps(cylinder, r) ==
    IF ~cylinder.closed \/ r.direction[2] = 0 THEN <<>>
    ELSE LET t_lower == Quot(cylinder.minimum * r.den - r.origin[2], r.direction[2])
             t_upper == Quot(cylinder.maximum * r.den - r.origin[2], r.direction[2])
         IN  (IF check_cap(r, t_lower) THEN <<Intersection(t_lower, cylinder.id)>> ELSE <<>>)
             \o (IF check_cap(r, t_upper) THEN <<Intersection(t_upper, cylinder.id)>> ELSE <<>>)

\* Cylinder::intersect on the local ray. a is near 0 exactly when the x and z
\* components of the direction are 0 or a drift.
CylinderIntersect(cylinder, r) ==
    LET a == r.direction[1] * r.direction[1] + r.direction[3] * r.direction[3]
        b == 2 * r.origin[1] * r.direction[1] + 2 * r.origin[3] * r.direction[3]
        c == r.origin[1] * r.origin[1] + r.origin[3] * r.origin[3]
             - Fixed(r.den) * Fixed(r.den)
        disc == b * b - 4 * a * c
        first == (-b - Sqrt(disc)) \div (2 * a)
        second == (-b + Sqrt(disc)) \div (2 * a)
        t0 == IF first > second THEN second ELSE first
        t1 == IF first > second THEN first ELSE second
        y0 == Position(r, 2, t0)
        y1 == Position(r, 2, t1)
        walls ==
            (IF cylinder.minimum * r.den < y0 /\ y0 < cylinder.maximum * r.den
             THEN <<Intersection(t0, cylinder.id)>> ELSE <<>>)
            \o (IF cylinder.minimum * r.den < y1 /\ y1 < cylinder.maximum * r.den
                THEN <<Intersection(t1, cylinder.id)>> ELSE <<>>)
    IN  IF a = 0 THEN intersect_caps(cylinder, r)
        ELSE IF disc < 0 THEN <<>>
        ELSE walls \o intersect_caps(cylinder, r)

\* Cylinder::bounds_of
CylinderBoundsOf(cylinder) ==
    Bound(<<Fin(Fixed(-1)), Fin(cylinder.minimum), Fin(Fixed(-1))>>,
          <<Fin(Fixed(1)), Fin(cylinder.maximum), Fin(Fixed(1))>>)

RECURSIVE bounds_of(_)
RECURSIVE parent_space_bounds_of(_)
RECURSIVE AddBoxes(_, _)

\* Group::bounds_of: the loop over the children
AddBoxes(group_box, shapes) ==
    IF shapes = <<>> THEN group_box
    ELSE AddBoxes(add_box(group_box, parent_space_bounds_of(Head(shapes))), Tail(shapes))

\* Shape::bounds_of
bounds_of(shape) ==
    IF shape.kind = "Group" THEN AddBoxes(bounding_box_empty, shape.shapes)
    ELSE CylinderBoundsOf(shape)

\* Shape::parent_space_bounds_of
parent_space_bounds_of(shape) == BoundTransform(bounds_of(shape), shape.transform)

RECURSIVE ShapeIntersect(_, _)
RECURSIVE GroupIntersect(_, _)
RECURSIVE IntersectAll(_, _)

\* Group::intersect: the fold over the children
IntersectAll(shapes, r) ==
    IF shapes = <<>> THEN <<>>
    ELSE ShapeIntersect(Head(shapes), r) \o IntersectAll(Tail(shapes), r)

\* Group::intersect
GroupIntersect(g, r) ==
    IF intersects(bounds_of(g), r) THEN SortByT(IntersectAll(g.shapes, r)) ELSE <<>>

\* Shape::intersect
ShapeIntersect(shape, r) ==
    LET local_ray == RayToLocal(r, shape.transform)
    IN  IF shape.kind = "Group" THEN GroupIntersect(shape, local_ray)
        ELSE CylinderIntersect(shape, local_ray)

update_group_reference_push(references, g) == Append(references, g)

\* Group::update_group_reference on PARENT_REFERENCES
update_group_reference(references, g) ==
    LET found == {i \in 1..Len(references) : references[i].id = g.id}
        index == CHOOSE i \in found : \A j \in found : i <= j
    IN  IF found = {} THEN Append(references, g)
        ELSE Append(SubSeq(references, 1, index - 1)
                    \o SubSeq(references, index + 1, Len(references)), g)

\* Shape::set_parent and Shape::set_transform: the shape, and the registry after
set_parent(shape, parent, references) ==
    LET child == [shape EXCEPT !.parent = Some(parent)]
    IN  [shape |-> child,
         registry |-> IF shape.kind = "Group" THEN update_group_reference(references, child)
                      ELSE references]

set_transform(shape, transform, references) ==
    LET moved == [shape EXCEPT !.transform = transform]
    IN  [shape |-> moved,
         registry |-> IF shape.kind = "Group" THEN update_group_reference(references, moved)
                      ELSE references]

\* Group::add_child: the group, and the registry after
Pushed(parent, references) ==
    [group |-> parent, registry |-> update_group_reference(references, parent)]

PushChild(g, child) == Pushed([g EXCEPT !.shapes = Append(@, child.shape)], child.registry)

add_child(g, shape, references) == PushChild(g, set_parent(shape, g.id, references))

\* the retain closure that looks at the right half first
SideRightFirst(boxes, bounds) ==
    IF box_contains_box(boxes[2], bounds) THEN "right"
    ELSE IF box_contains_box(boxes[1], bounds) THEN "left"
    ELSE "stay"

\* Group::partition_children: where the retain closure puts a child
Side(boxes, bounds) ==
    IF box_contains_box(boxes[1], bounds) THEN "left"
    ELSE IF box_contains_box(boxes[2], bounds) THEN "right"
    ELSE "stay"

RECURSIVE Retain(_, _, _)
\* Group::partition_children: the children the retain closure puts on a side
Retain(shapes, boxes, side) ==
    IF shapes = <<>> THEN <<>>
    ELSE (IF Side(boxes, parent_space_bounds_of(Head(shapes))) = side
          THEN <<Head(shapes)>> ELSE <<>>)
         \o Retain(Tail(shapes), boxes, side)

Partitioned(parent, left, right, references) ==
    [group |-> parent, left |-> left, right |-> right,
     registry |-> update_group_reference(references, parent)]

\* Group::partition_children once the bounds are split
Partition(g, references, boxes) ==
    Partitioned([g EXCEPT !.shapes = Retain(@, boxes, "stay")],
                Retain(g.shapes, boxes, "left"), Retain(g.shapes, boxes, "right"),
                references)

\* Group::partition_children: the group, the two lists and the registry after
partition_children(g, references) == Partition(g, references, split_bounds(bounds_of(g)))

RECURSIVE AddChildren(_, _, _)
RECURSIVE AddRest(_, _)
AddRest(added, shapes) == AddChildren(added.group, shapes, added.registry)

\* Group::make_subgroup: the loop that fills the new subgroup
AddChildren(subgroup, shapes, references) ==
    IF shapes = <<>> THEN [group |-> subgroup, registry |-> references]
    ELSE AddRest(add_child(subgroup, Head(shapes), references), Tail(shapes))

\* Group::make_subgroup: the group, the registry and ID_COUNT after
AddSubgroup(added, count) ==
    [group |-> added.group, registry |-> added.registry, idCount |-> count + 1]

AddFilled(g, filled, count) == AddSubgroup(add_child(g, filled.group, filled.registry), count)

make_subgroup(g, shapes, references, count) ==
    AddFilled(g, AddChildren(Group(count), shapes, references), count)

holds_more_than_threshold(thr, len) == thr < len

\* Group::divide: the test that the group holds at least threshold children
holds_threshold(thr, len) == thr <= len

RECURSIVE divide(_, _, _, _)
RECURSIVE DivideChildren(_, _, _)

\* Group::divide: child k is replaced by the child divided
Replaced(g, k, child) ==
    [group |-> [g EXCEPT !.shapes[k] = child.group],
     registry |-> child.registry, idCount |-> child.idCount]

\* Group::divide: the loop over the children
DivideChildren(st, k, thr) ==
    IF k > Len(st.group.shapes) THEN st
    ELSE DivideChildren(
             Replaced(st.group, k, divide(st.group.shapes[k], thr, st.registry, st.idCount)),
             k + 1, thr)

\* Group::divide: make_subgroup of a list that is not empty
Subgroup(st, shapes) ==
    IF shapes # <<>> THEN make_subgroup(st.group, shapes, st.registry, st.idCount) ELSE st

\* Group::divide: the left list, then the right list
Subgroups(parts, count) ==
    Subgroup(Subgroup([group |-> parts.group, registry |-> parts.registry,
                       idCount |-> count], parts.left),
             parts.right)

\* Shape::divide and Group::divide: the shape, the registry and ID_COUNT after
divide(shape, thr, references, count) ==
    IF shape.kind # "Group"
    THEN [group |-> shape, registry |-> references, idCount |-> count]
    ELSE DivideChildren(
             IF holds_threshold(thr, Len(shape.shapes))
             THEN Subgroups(partition_children(shape, references), count)
             ELSE [group |-> shape, registry |-> references, idCount |-> count],
             1, thr)

\* translations of the cylinders and of the groups, in half units
CylinderTranslations ==
    {<<Fixed(-2), 0, 0>>, <<Fixed(2), 0, 0>>, <<Fixed(2), Fixed(2), 0>>}
GroupTranslations == {<<0, Fixed(2), 0>>}

RECURSIVE Shapes(_)
\* a shape and every shape below it
Shapes(shape) ==
    {shape} \cup UNION {Shapes(shape.shapes[k]) : k \in 1..Len(shape.shapes)}

Groups(shape) == {s \in Shapes(shape) : s.kind = "Group"}
Cylinders(shape) == {s \in Shapes(shape) : s.kind = "Cylinder"}
Ids(shape) == {s.id : s \in Shapes(shape)}

IdleGroup ==
    /\ group = None
    /\ registry = <<>>
    /\ idCount = 1
    /\ threshold = 0
    /\ undivided = None
    /\ groupCsg = None
    /\ extracted = <<>>

\* let mut group = Shape::Group(Group::new())
InitGroup ==
    /\ pc = "start"
    /\ group = Group(1)
    /\ registry = <<>>
    /\ idCount = 2
    /\ threshold = 0
    /\ undivided = None
    /\ groupCsg = None
    /\ extracted = <<>>

\* a new cylinder is placed and added: group.add_child(&mut cylinder)
AddCylinder ==
    /\ pc = "start"
    /\ Cardinality(Cylinders(group)) < MaxShapes
    /\ \E t \in CylinderTranslations :
          LET added == add_child(group, Cylinder(idCount, Transform(t, 1)), registry)
          IN  /\ group' = added.group
              /\ registry' = added.registry
    /\ idCount' = idCount + 1
    /\ UNCHANGED <<pc, threshold, undivided, groupCsg, extracted, varsHit, varsCsg, varsShadow,
                   varsColor, varsCamera, varsMatrix, varsIds, varsObj, varsScene, varsNormal,
                   varsFold, varsWorld, varsTree, varsComp, varsPpm, varsDivide, varsRace,
                   varsBox>>

\* the group is placed and added to a new group, which takes its place:
\* group.set_transform(..); outer = Shape::Group(Group::new()); outer.add_child(&mut group)
AddGroup ==
    /\ pc = "start"
    /\ Cardinality(Groups(group)) < MaxGroups
    /\ \E t \in GroupTranslations :
          LET moved == set_transform(group, Transform(t, 1), registry)
              added == add_child(Group(idCount), moved.shape, moved.registry)
          IN  /\ group' = added.group
              /\ registry' = added.registry
    /\ idCount' = idCount + 1
    /\ UNCHANGED <<pc, threshold, undivided, groupCsg, extracted, varsHit, varsCsg, varsShadow,
                   varsColor, varsCamera, varsMatrix, varsIds, varsObj, varsScene, varsNormal,
                   varsFold, varsWorld, varsTree, varsComp, varsPpm, varsDivide, varsRace,
                   varsBox>>

\* group.divide(threshold)
Divide ==
    /\ pc = "start"
    /\ \E thr \in 0..MaxThreshold :
          \E divided \in {divide(group, thr, registry, idCount)} :
              /\ threshold' = thr
              /\ undivided' = Some(group)
              /\ group' = divided.group
              /\ registry' = divided.registry
              /\ idCount' = divided.idCount
    /\ pc' = "done"
    /\ UNCHANGED <<groupCsg, extracted, varsHit, varsCsg, varsShadow, varsColor, varsCamera,
                   varsMatrix, varsIds, varsObj, varsScene, varsNormal, varsFold, varsWorld,
                   varsTree, varsComp, varsPpm, varsDivide, varsRace, varsBox>>

\* update_csg_reference that leaves PARENT_REFERENCES as it was
update_csg_reference_dropped(references, c) == references

\* CSG::update_csg_reference on PARENT_REFERENCES
update_csg_reference(references, c) ==
    LET found == {i \in 1..Len(references) : references[i].id = c.id}
        index == CHOOSE i \in found : \A j \in found : i <= j
    IN  IF found = {} THEN Append(references, c)
        ELSE Append(SubSeq(references, 1, index - 1)
                    \o SubSeq(references, index + 1, Len(references)), c)

\* CSG::new: the CSG with its copies of the two shapes
NewCsgOf(csg_id, op, left, right) ==
    [kind |-> "CSG", id |-> csg_id, transform |-> Identity, parent |-> None,
     operation |-> op, left |-> left, right |-> right, shapes |-> <<>>]

CsgBuilt(new_csg, references) ==
    [csg |-> new_csg, left |-> new_csg.left, right |-> new_csg.right,
     registry |-> update_csg_reference(references, new_csg)]

CsgOver(csg_id, op, left, right) ==
    CsgBuilt(NewCsgOf(csg_id, op, left, right.shape), right.registry)

CsgRight(csg_id, op, left, right) ==
    CsgOver(csg_id, op, left.shape, set_parent(right, csg_id, left.registry))

\* CSG::new: the CSG, the two shapes handed in as they are after, and the registry
csg_new(op, left, right, references, csg_id) ==
    CsgRight(csg_id, op, set_parent(left, csg_id, references), right)

\* most ids handed out before an operation that makes shapes
\* add_child while ids are left
AddCylinderChild == idCount <= MaxIds /\ AddCylinder
AddGroupChild == idCount <= MaxIds /\ AddGroup

\* let mut csg = CSG::new("union", &mut Shape::Cylinder(Cylinder::new()), &mut group)
NewCsg ==
    /\ pc = "start"
    /\ groupCsg = None
    /\ idCount <= MaxIds
    /\ \E built \in {csg_new("union", Cylinder(idCount, Identity), group, registry,
                              idCount + 1)} :
          /\ groupCsg' = Some(built.csg)
          /\ group' = built.right
          /\ registry' = built.registry
    /\ idCount' = idCount + 2
    /\ UNCHANGED <<pc, threshold, undivided, extracted, varsHit, varsCsg, varsShadow,
                   varsColor, varsCamera, varsMatrix, varsIds, varsObj, varsScene, varsNormal,
                   varsFold, varsWorld, varsTree, varsComp, varsPpm, varsDivide, varsRace,
                   varsBox>>

\* let (left, right) = group.partition_children(), when a child is extracted
PartitionChildren ==
    /\ pc = "start"
    /\ extracted = <<>>
    /\ \E parts \in {partition_children(group, registry)} :
          /\ parts.left # <<>> \/ parts.right # <<>>
          /\ group' = parts.group
          /\ registry' = parts.registry
          /\ extracted' = (IF parts.left # <<>> THEN <<parts.left>> ELSE <<>>)
                          \o (IF parts.right # <<>> THEN <<parts.right>> ELSE <<>>)
    /\ UNCHANGED <<pc, idCount, threshold, undivided, groupCsg, varsHit, varsCsg, varsShadow,
                   varsColor, varsCamera, varsMatrix, varsIds, varsObj, varsScene, varsNormal,
                   varsFold, varsWorld, varsTree, varsComp, varsPpm, varsDivide, varsRace,
                   varsBox>>

\* group.make_subgroup(&mut list) with the first list extracted
MakeSubgroup ==
    /\ pc = "start"
    /\ extracted # <<>>
    /\ idCount <= MaxIds
    /\ \E made \in {make_subgroup(group, Head(extracted), registry, idCount)} :
          /\ group' = made.group
          /\ registry' = made.registry
          /\ idCount' = made.idCount
    /\ extracted' = Tail(extracted)
    /\ UNCHANGED <<pc, threshold, undivided, groupCsg, varsHit, varsCsg, varsShadow, varsColor,
                   varsCamera, varsMatrix, varsIds, varsObj, varsScene, varsNormal, varsFold,
                   varsWorld, varsTree, varsComp, varsPpm, varsDivide, varsRace, varsBox>>

\* group.divide(threshold), with other operations to follow
DivideGroup ==
    /\ pc = "start"
    /\ idCount <= MaxIds
    /\ \E thr \in 0..MaxThreshold :
          \E divided \in {divide(group, thr, registry, idCount)} :
              /\ group' = divided.group
              /\ registry' = divided.registry
              /\ idCount' = divided.idCount
    /\ UNCHANGED <<pc, threshold, undivided, groupCsg, extracted, varsHit, varsCsg, varsShadow,
                   varsColor, varsCamera, varsMatrix, varsIds, varsObj, varsScene, varsNormal,
                   varsFold, varsWorld, varsTree, varsComp, varsPpm, varsDivide, varsRace,
                   varsBox>>

\* the rays the groups are intersected with: along z, along y and along x, and
\* one along y from far below that drifts along x
GroupRays ==
    {Ray(<<px, 0, Fixed(-5)>>, <<0, 0, 1>>) :
        px \in {Fixed(-2), Fixed(-1), 0, Fixed(1), Fixed(2)}}
    \cup {Ray(<<px, Fixed(-5), 0>>, <<0, 1, 0>>) : px \in {Fixed(-2), 0, Fixed(2)}}
    \cup {Ray(<<Fixed(-10), py, 0>>, <<1, 0, 0>>) : py \in {Fixed(-2), 0, Fixed(2)}}
    \cup {DriftRay(<<0, -(2 * DriftSpan) * 2 - Fixed(1), 0>>, <<0, 1, 0>>, <<1, 0, 0>>)}

HitSet(xs) == {<<xs[k].t, xs[k].object>> : k \in 1..Len(xs)}

\* the primitives of a group, as divide may not change them
Leaves(shape) == {[id |-> s.id, transform |-> s.transform] : s \in Cylinders(shape)}

\* the subgroups divide made
NewGroups == {g \in Groups(group) : g.id \notin Ids(undivided[1])}

\* C9: after G.divide(threshold), G.intersect yields for every ray the same set of
\* (t, shape id) hits as before; no leaf primitive is lost or duplicated, no
\* primitive's transform changes, and every subgroup made has the identity
\* transform and a bounding box that contains all of its children.
C9_DividePreservesHits ==
    pc = "done" =>
        /\ \A r \in GroupRays :
              HitSet(GroupIntersect(group, r)) = HitSet(GroupIntersect(undivided[1], r))
        /\ Leaves(group) = Leaves(undivided[1])
        /\ Cardinality(Cylinders(group)) = Cardinality(Cylinders(undivided[1]))
        /\ \A g \in NewGroups :
              /\ g.transform = Identity
              /\ \A k \in 1..Len(g.shapes) :
                    box_contains_box(bounds_of(g), parent_space_bounds_of(g.shapes[k]))

RECURSIVE Divided(_, _)

\* the extracted lists that are not empty, the left one first
ExtractedLists(parts) ==
    (IF parts.left # <<>> THEN <<parts.left>> ELSE <<>>)
    \o (IF parts.right # <<>> THEN <<parts.right>> ELSE <<>>)

\* subgroup is a new group of before that holds the divided shapes of the list
DividedSubgroup(before, subgroup, shapes) ==
    /\ subgroup.kind = "Group"
    /\ subgroup.id \notin Ids(before)
    /\ subgroup.transform = Identity
    /\ subgroup.parent = Some(before.id)
    /\ Divided([subgroup EXCEPT !.shapes =
                   [k \in 1..Len(shapes) |-> [shapes[k] EXCEPT !.parent = Some(subgroup.id)]]],
               subgroup)

\* after holds the divided children that stay, then one subgroup for each list
DividedInto(before, after, stay, lists) ==
    /\ Len(after.shapes) = Len(stay) + Len(lists)
    /\ \A k \in 1..Len(stay) : Divided(stay[k], after.shapes[k])
    /\ \A j \in 1..Len(lists) :
          DividedSubgroup(before, after.shapes[Len(stay) + j], lists[j])

DividedParts(before, after, parts) ==
    DividedInto(before, after, parts.group.shapes, ExtractedLists(parts))

\* after is before as divide(threshold) leaves it
Divided(before, after) ==
    IF before.kind # "Group" THEN after = before
    ELSE /\ after.kind = "Group"
         /\ after.id = before.id
         /\ after.transform = before.transform
         /\ after.parent = before.parent
         /\ IF Len(before.shapes) < threshold
            THEN /\ Len(after.shapes) = Len(before.shapes)
                 /\ \A k \in 1..Len(before.shapes) :
                       Divided(before.shapes[k], after.shapes[k])
            ELSE DividedParts(before, after, partition_children(before, <<>>))

\* C10: divide(threshold) partitions the children of a group only if the group
\* holds at least threshold children; each non-empty extracted list becomes one new
\* subgroup after the remaining children, the left one first; every child is then
\* divided, also in a group below the threshold and also the new subgroups; a
\* primitive is left as it is.
C10_DivideStructure ==
    pc = "done" => Divided(undivided[1], group)

\* a group below the threshold whose child group was split into two new subgroups
C10_Witness ==
    /\ pc = "done"
    /\ Len(undivided[1].shapes) < threshold
    /\ \E k \in 1..Len(group.shapes) :
          /\ undivided[1].shapes[k].kind = "Group"
          /\ Len(undivided[1].shapes[k].shapes) >= threshold
          /\ Cardinality({s \in 1..Len(group.shapes[k].shapes) :
                             group.shapes[k].shapes[s] \in NewGroups}) = 2

\* the entries of the registry that carry the id
EntriesOf(references, id) == {i \in 1..Len(references) : references[i].id = id}

\* g holds c as its last child after the children it held, and the registry holds
\* g as it is now, once
AddedChild(g, earlier, c, references) ==
    /\ g.shapes = Append(earlier, [c EXCEPT !.parent = Some(g.id)])
    /\ Cardinality(EntriesOf(references, g.id)) = 1
    /\ \A i \in EntriesOf(references, g.id) : references[i] = g

\* C11: after G.add_child(c), c's parent is Some(G.id), a copy of c carrying that
\* parent is the last element of G.shapes, the earlier children of G are unchanged,
\* and the parent registry holds exactly one entry with id G.id, which is G as it
\* is after the push.
C11_AddChildContract ==
    [][pc' = "start" /\ group' # group =>
          \/ /\ group'.id = group.id
             /\ \E t \in CylinderTranslations :
                   AddedChild(group', group.shapes, Cylinder(idCount, Transform(t, 1)),
                              registry')
          \/ /\ group'.id = idCount
             /\ \E t \in GroupTranslations :
                   AddedChild(group', <<>>, [group EXCEPT !.transform = Transform(t, 1)],
                              registry')]_vars

\* a second child was added to a group: its earlier entry of the registry was replaced
C11_Witness ==
    /\ pc = "start"
    /\ Len(group.shapes) >= 2
    /\ group.shapes[Len(group.shapes)].parent = Some(group.id)
    /\ Cardinality(EntriesOf(registry, group.id)) = 1
    /\ registry[Len(registry)] = group

\* the shapes of the trees and of the registry: the group, the CSG with its two
\* shapes, the lists extracted and every entry of the registry, with all below them
AllShapes ==
    Shapes(group)
    \cup (IF groupCsg = None THEN {}
          ELSE {groupCsg[1]} \cup Shapes(groupCsg[1].left) \cup Shapes(groupCsg[1].right))
    \cup UNION {UNION {Shapes(extracted[i][k]) : k \in 1..Len(extracted[i])} :
                   i \in 1..Len(extracted)}
    \cup UNION {Shapes(registry[i]) : i \in 1..Len(registry)}
    \cup UNION {Shapes(registry[i].left) \cup Shapes(registry[i].right) :
                   i \in {j \in 1..Len(registry) : registry[j].kind = "CSG"}}

\* the lookup Shape::world_to_object makes finds a group or a CSG
ParentResolves(shape) ==
    shape.parent # None =>
        \E i \in 1..Len(registry) :
            registry[i].id = shape.parent[1] /\ registry[i].kind \in {"Group", "CSG"}

\* C12: in every state reached by add_child, CSG::new, make_subgroup,
\* partition_children and divide, every shape of a tree or of the registry whose
\* parent is Some(p) has an entry with id p in the registry that is a Group or a CSG.
C12_ParentsResolve == \A shape \in AllShapes : ParentResolves(shape)

\* a cylinder under a subgroup made by make_subgroup, next to a CSG over the group
C12_Witness ==
    /\ groupCsg # None
    /\ group.parent # None
    /\ \E g \in Groups(group) :
          /\ g.parent = Some(group.id)
          /\ \E k \in 1..Len(g.shapes) : g.shapes[k].kind = "Cylinder"
    /\ \E i \in 1..Len(registry) : registry[i].kind = "CSG"

\* ------------------------------------------------- matrix.rs: Matrix::inverse
\* an f64 quotient n / d, kept in lowest terms with d > 0
RECURSIVE Gcd(_, _)
Gcd(a, b) == IF b = 0 THEN a ELSE Gcd(b, a % b)

Quotient(n, d) ==
    LET g == Gcd(Abs(n), Abs(d))
        sign == IF d < 0 THEN -1 ELSE 1
    IN  [n |-> sign * (n \div g), d |-> sign * (d \div g)]

\* Matrix::submatrix
Without(row, index) ==
    [i \in 1..(Len(row) - 1) |-> IF i < index THEN row[i] ELSE row[i + 1]]

submatrix(values, row_to_remove, column_to_remove) ==
    LET rows == Without(values, row_to_remove)
    IN  [i \in 1..Len(rows) |-> Without(rows[i], column_to_remove)]

RECURSIVE determinant(_)
RECURSIVE ExpandFirstRow(_, _)

\* Matrix::minor
minor(values, row, column) == determinant(submatrix(values, row, column))

\* Matrix::cofactor; rows and columns count from 1 here, which keeps the parity of
\* row + column
cofactor(values, row, column) ==
    IF (row + column) % 2 = 1 THEN minor(values, row, column) * (-1)
    ELSE minor(values, row, column)

\* Matrix::determinant: the loop over the columns of the first row
ExpandFirstRow(values, column) ==
    IF column = 0 THEN 0
    ELSE ExpandFirstRow(values, column - 1) + values[1][column] * cofactor(values, 1, column)

determinant(values) ==
    IF Len(values) = 2 /\ Len(values[1]) = 2
    THEN (values[1][1] * values[2][2]) - (values[1][2] * values[2][1])
    ELSE ExpandFirstRow(values, Len(values))

\* Matrix::inverse: inverse[column][row] = cofactor / determinant
Adjugate(values, det) ==
    [column \in 1..Len(values) |->
        [row \in 1..Len(values) |-> Quotient(cofactor(values, row, column), det)]]

\* Matrix::inverse: position of the first cached matrix with the id
CachedPosition(cached, id) ==
    LET found == {i \in 1..Len(cached) : cached[i].id = id}
    IN  IF found = {} THEN None ELSE Some(CHOOSE i \in found : \A j \in found : i <= j)

Computed(m, cached, det) ==
    IF det = 0 THEN [result |-> None, cached |-> cached]
    ELSE [result |-> Some([id |-> m.id, values |-> Adjugate(m.values, det)]),
          cached |-> Append(cached, [id |-> m.id, values |-> Adjugate(m.values, det)])]

Looked(m, cached, index) ==
    IF index # None THEN [result |-> Some(cached[index[1]]), cached |-> cached]
    ELSE Computed(m, cached, determinant(m.values))

\* Matrix::inverse with CACHED_INVERSES: the Option returned and the cache left
inverse(m, cached) == Looked(m, cached, CachedPosition(cached, m.id))

\* Matrix::identity(3)
identity == <<<<1, 0, 0>>, <<0, 1, 0>>, <<0, 0, 1>>>>

\* the values handed to Matrix::new
MatrixValues == {identity, <<<<1, 2, 0>>, <<0, 1, 0>>, <<2, 0, 1>>>>}

\* the elements assigned through indexing and the values assigned
AssignedCells == {<<1, 1>>}
AssignedValues == {0, 2}

IdleMatrix ==
    /\ matrices = <<>>
    /\ cachedInverses = <<>>
    /\ matrixId = 1
    /\ lastInverse = None

InitMatrix == pc = "start" /\ IdleMatrix

\* let m = Matrix::new(3, 3, values)
\* MATRIX_ID advances here for the matrices that are kept; the temporaries of
\* submatrix, transpose and the products draw ids as well, which shifts the ids
\* given later and changes no comparison of ids.
MatrixNew ==
    /\ Len(matrices) < MaxMatrices
    /\ \E values \in MatrixValues :
          matrices' = Append(matrices, [id |-> matrixId, values |-> values])
    /\ matrixId' = matrixId + 1
    /\ UNCHANGED <<cachedInverses, lastInverse, pc, varsHit, varsCsg, varsShadow, varsColor,
                   varsCamera, varsGroup, varsIds, varsObj, varsScene, varsNormal, varsFold,
                   varsWorld, varsTree, varsComp, varsPpm, varsDivide, varsRace, varsBox>>

\* let n = m.clone()
MatrixClone ==
    /\ Len(matrices) < MaxMatrices
    /\ \E i \in 1..Len(matrices) : matrices' = Append(matrices, matrices[i])
    /\ UNCHANGED <<cachedInverses, matrixId, lastInverse, pc, varsHit, varsCsg, varsShadow,
                   varsColor, varsCamera, varsGroup, varsIds, varsObj, varsScene, varsNormal,
                   varsFold, varsWorld, varsTree, varsComp, varsPpm, varsDivide, varsRace,
                   varsBox>>

\* m[r][c] = v
MatrixAssign ==
    /\ \E i \in 1..Len(matrices), cell \in AssignedCells, v \in AssignedValues :
          matrices' = [matrices EXCEPT ![i].values[cell[1]][cell[2]] = v]
    /\ UNCHANGED <<cachedInverses, matrixId, lastInverse, pc, varsHit, varsCsg, varsShadow,
                   varsColor, varsCamera, varsGroup, varsIds, varsObj, varsScene, varsNormal,
                   varsFold, varsWorld, varsTree, varsComp, varsPpm, varsDivide, varsRace,
                   varsBox>>

\* m.inverse()
MatrixInverse ==
    /\ \E i \in 1..Len(matrices) :
          \E inverted \in {inverse(matrices[i], cachedInverses)} :
              /\ lastInverse' = Some([of |-> matrices[i], result |-> inverted.result])
              /\ cachedInverses' = inverted.cached
    /\ UNCHANGED <<matrices, matrixId, pc, varsHit, varsCsg, varsShadow, varsColor, varsCamera,
                   varsGroup, varsIds, varsObj, varsScene, varsNormal, varsFold, varsWorld,
                   varsTree, varsComp, varsPpm, varsDivide, varsRace, varsBox>>

\* C13: inverse() returns the inverse of the current element values of the matrix
\* it is asked of, and no inverse when the matrix is singular: a cached inverse is
\* never returned for a matrix whose values differ from those it was computed from.
InverseOfValues(values, det) ==
    IF det = 0 THEN None ELSE Some(Adjugate(values, det))

ValuesOf(result) == IF result = None THEN None ELSE Some(result[1].values)

C13_InverseOfCurrentValues ==
    lastInverse # None =>
        ValuesOf(lastInverse[1].result)
            = InverseOfValues(lastInverse[1].of.values, determinant(lastInverse[1].of.values))

\* ------------------------------------------------------ shape ids: the constructors
\* the variants whose constructor takes its id from generate_object_id
SharedCounterKinds == {"Plane", "Cylinder", "Cone", "Triangle", "Group", "CSG"}

IdleIds ==
    /\ created = <<>>
    /\ sphereIdCount = 1
    /\ cubeIdCount = 1
    /\ calls = 0

InitIds == pc = "start" /\ IdleIds

Made(kind, id) == [kind |-> kind, id |-> id, call |-> calls + 1]

\* Sphere::new()
SphereNew ==
    /\ Len(created) < MaxCreated
    /\ created' = Append(created, Made("Sphere", sphereIdCount))
    /\ sphereIdCount' = sphereIdCount + 1
    /\ calls' = calls + 1
    /\ UNCHANGED <<cubeIdCount, idCount, pc, varsHit, varsCsg, varsShadow, varsColor,
                   varsCamera, group, registry, threshold, undivided, groupCsg, extracted,
                   varsMatrix, varsObj, varsScene, varsNormal, varsFold, varsWorld, varsTree,
                   varsComp, varsPpm, varsDivide, varsRace, varsBox>>

\* Cube::new()
CubeNew ==
    /\ Len(created) < MaxCreated
    /\ created' = Append(created, Made("Cube", cubeIdCount))
    /\ cubeIdCount' = cubeIdCount + 1
    /\ calls' = calls + 1
    /\ UNCHANGED <<sphereIdCount, idCount, pc, varsHit, varsCsg, varsShadow, varsColor,
                   varsCamera, group, registry, threshold, undivided, groupCsg, extracted,
                   varsMatrix, varsObj, varsScene, varsNormal, varsFold, varsWorld, varsTree,
                   varsComp, varsPpm, varsDivide, varsRace, varsBox>>

\* Plane::new(), Cylinder::new(), Cone::new(), Triangle::new(..), Group::new(), CSG::new(..)
SharedNew ==
    /\ Len(created) < MaxCreated
    /\ \E kind \in SharedCounterKinds : created' = Append(created, Made(kind, idCount))
    /\ idCount' = idCount + 1
    /\ calls' = calls + 1
    /\ UNCHANGED <<sphereIdCount, cubeIdCount, pc, varsHit, varsCsg, varsShadow, varsColor,
                   varsCamera, group, registry, threshold, undivided, groupCsg, extracted,
                   varsMatrix, varsObj, varsScene, varsNormal, varsFold, varsWorld, varsTree,
                   varsComp, varsPpm, varsDivide, varsRace, varsBox>>

\* shape.clone()
ShapeClone ==
    /\ Len(created) < MaxCreated
    /\ \E i \in 1..Len(created) : created' = Append(created, created[i])
    /\ UNCHANGED <<sphereIdCount, cubeIdCount, idCount, calls, pc, varsHit, varsCsg,
                   varsShadow, varsColor, varsCamera, group, registry, threshold, undivided,
                   groupCsg, extracted, varsMatrix, varsObj, varsScene, varsNormal, varsFold,
                   varsWorld, varsTree, varsComp, varsPpm, varsDivide, varsRace, varsBox>>

\* C14: two shapes made by separate constructor calls, of the same or of different
\* variants, have different ids; only clones of one shape share an id.
C14_SeparateCallsSeparateIds ==
    \A i, j \in 1..Len(created) :
        created[i].call # created[j].call => created[i].id # created[j].id

\* ------------------------------------------------ obj_file.rs: parse_obj_file
\* a Vec indexed from 0
At(table, i) == table[i + 1]
InRange(table, i) == i < Len(table)

\* the k-th v record of a file is "v k 0 0", the k-th vn record "vn 0 k 0"
VertexRecord(k) == <<Fixed(k), 0, 0>>
NormalRecord(k) == <<0, Fixed(k), 0>>

\* ORIGIN and Tuple::vector(0., 0., 0.)
ORIGIN == <<0, 0, 0>>

\* the face records read: "f 1 2 3", "f 3 2 1", "f 1 2 3 4", "f 4 3 2 1",
\* "f 1 2 5", "f 1//1 2//2 3//3", "f 1//3 2//2 3//4", "f 1//1 2//2 3//3 4//1"
FaceOf(points, vertex_normals) == [points |-> points, vertex_normals |-> vertex_normals]

FaceRecords ==
    { FaceOf(<<1, 2, 3>>, <<>>), FaceOf(<<3, 2, 1>>, <<>>),
      FaceOf(<<1, 2, 3, 4>>, <<>>), FaceOf(<<4, 3, 2, 1>>, <<>>),
      FaceOf(<<1, 2, 5>>, <<>>),
      FaceOf(<<1, 2, 3>>, <<1, 2, 3>>), FaceOf(<<1, 2, 3>>, <<3, 2, 4>>),
      FaceOf(<<1, 2, 3, 4>>, <<1, 2, 3, 1>>) }

\* Triangle::new and SmoothTriangle::new, as far as the points and normals go
Triangle(p1, p2, p3) == [kind |-> "Triangle", p1 |-> p1, p2 |-> p2, p3 |-> p3]
SmoothTriangle(p1, p2, p3, n1, n2, n3) ==
    [kind |-> "SmoothTriangle", p1 |-> p1, p2 |-> p2, p3 |-> p3,
     n1 |-> n1, n2 |-> n2, n3 |-> n3]

\* the result of a step that may panic on an index out of bounds
Panicked == [panicked |-> TRUE, shapes |-> <<>>]
Built(shapes) == [panicked |-> FALSE, shapes |-> shapes]

\* fan_triangulation: for index in 2..vertices.len() - 1
RECURSIVE FanFrom(_, _)
FanFrom(table, index) ==
    IF index >= Len(table) - 1 THEN <<>>
    ELSE <<Triangle(At(table, 1), At(table, index), At(table, index + 1))>>
         \o FanFrom(table, index + 1)

fan_triangulation(table) == Built(FanFrom(table, 2))

\* fan_triangulation_smooth: the same loop, with normals[1], normals[index] and
\* normals[index + 1]
RECURSIVE SmoothFanFrom(_, _, _)
SmoothFanFrom(table, ns, index) ==
    IF index >= Len(table) - 1 THEN <<>>
    ELSE <<SmoothTriangle(At(table, 1), At(table, index), At(table, index + 1),
                          At(ns, 1), At(ns, index), At(ns, index + 1))>>
         \o SmoothFanFrom(table, ns, index + 1)

fan_triangulation_smooth(table, ns) ==
    IF Len(table) - 1 > 2 /\ ~InRange(ns, Len(table) - 1) THEN Panicked
    ELSE Built(SmoothFanFrom(table, ns, 2))

\* vertices[points[0]], vertices[points[1]], vertices[points[2]]
FirstThree(table, indices) ==
    /\ Len(indices) >= 3
    /\ \A k \in 1..3 : InRange(table, indices[k])

\* parse_obj_file, the "f" record once its fields are parsed
Face(face, table, ns) ==
    IF face.vertex_normals # <<>>
    THEN IF Len(face.points) > 3 THEN fan_triangulation_smooth(table, ns)
         ELSE IF FirstThree(table, face.points) /\ FirstThree(ns, face.vertex_normals)
              THEN Built(<<SmoothTriangle(At(table, face.points[1]), At(table, face.points[2]),
                                          At(table, face.points[3]),
                                          At(ns, face.vertex_normals[1]),
                                          At(ns, face.vertex_normals[2]),
                                          At(ns, face.vertex_normals[3]))>>)
              ELSE Panicked
    ELSE IF Len(face.points) > 3 THEN fan_triangulation(table)
         ELSE IF FirstThree(table, face.points)
              THEN Built(<<Triangle(At(table, face.points[1]), At(table, face.points[2]),
                                    At(table, face.points[3]))>>)
              ELSE Panicked

IdleObj ==
    /\ vertices = <<ORIGIN>>
    /\ normals = <<ORIGIN>>
    /\ groups = <<<<>>>>
    /\ lines_ignored = 0
    /\ parsing = "reading"
    /\ lastFace = None
    /\ recordsRead = 0

InitObj == pc = "start" /\ IdleObj

\* a line "v x y z"
ReadVertex ==
    /\ parsing = "reading"
    /\ Len(vertices) <= MaxVertices
    /\ vertices' = Append(vertices, VertexRecord(Len(vertices)))
    /\ UNCHANGED <<recordsRead, normals, groups, lines_ignored, parsing, lastFace, pc, varsHit,
                   varsCsg, varsShadow, varsColor, varsCamera, varsGroup, varsMatrix, varsIds,
                   varsScene, varsNormal, varsFold, varsWorld, varsTree, varsComp, varsPpm,
                   varsDivide, varsRace, varsBox>>

\* a line "vn x y z"
ReadNormal ==
    /\ parsing = "reading"
    /\ Len(normals) <= MaxNormals
    /\ normals' = Append(normals, NormalRecord(Len(normals)))
    /\ UNCHANGED <<recordsRead, vertices, groups, lines_ignored, parsing, lastFace, pc,
                   varsHit, varsCsg, varsShadow, varsColor, varsCamera, varsGroup, varsMatrix,
                   varsIds, varsScene, varsNormal, varsFold, varsWorld, varsTree, varsComp,
                   varsPpm, varsDivide, varsRace, varsBox>>

\* a line "f ..."
ReadFace ==
    /\ parsing = "reading"
    /\ recordsRead < MaxRecords
    /\ recordsRead' = recordsRead + 1
    /\ lines_ignored' = lines_ignored
    /\ \E face \in FaceRecords :
          \E made \in {Face(face, vertices, normals)} :
              /\ groups' = [groups EXCEPT ![Len(groups)] = @ \o made.shapes]
              /\ parsing' = IF made.panicked THEN "panicked" ELSE "reading"
              /\ lastFace' = Some([face |-> face, vertices |-> vertices, normals |-> normals,
                                   added |-> made.shapes,
                                   ignored |-> lines_ignored' - lines_ignored])
    /\ UNCHANGED <<vertices, normals, pc, varsHit, varsCsg, varsShadow, varsColor, varsCamera,
                   varsGroup, varsMatrix, varsIds, varsScene, varsNormal, varsFold, varsWorld,
                   varsTree, varsComp, varsPpm, varsDivide, varsRace, varsBox>>

\* a line "g name"
ReadGroup ==
    /\ parsing = "reading"
    /\ recordsRead < MaxRecords
    /\ recordsRead' = recordsRead + 1
    /\ groups' = Append(groups, <<>>)
    /\ UNCHANGED <<vertices, normals, lines_ignored, parsing, lastFace, pc, varsHit, varsCsg,
                   varsShadow, varsColor, varsCamera, varsGroup, varsMatrix, varsIds,
                   varsScene, varsNormal, varsFold, varsWorld, varsTree, varsComp, varsPpm,
                   varsDivide, varsRace, varsBox>>

\* an empty line or a line of any other kind
ReadOther ==
    /\ parsing = "reading"
    /\ recordsRead < MaxRecords
    /\ recordsRead' = recordsRead + 1
    /\ lines_ignored' = lines_ignored + 1
    /\ UNCHANGED <<vertices, normals, groups, parsing, lastFace, pc, varsHit, varsCsg,
                   varsShadow, varsColor, varsCamera, varsGroup, varsMatrix, varsIds,
                   varsScene, varsNormal, varsFold, varsWorld, varsTree, varsComp, varsPpm,
                   varsDivide, varsRace, varsBox>>

\* the end of the data: Parser::new(vertices, groups, normals, lines_ignored)
ParseReturn ==
    /\ parsing = "reading"
    /\ parsing' = "returned"
    /\ UNCHANGED <<recordsRead, vertices, normals, groups, lines_ignored, lastFace, pc,
                   varsHit, varsCsg, varsShadow, varsColor, varsCamera, varsGroup, varsMatrix,
                   varsIds, varsScene, varsNormal, varsFold, varsWorld, varsTree, varsComp,
                   varsPpm, varsDivide, varsRace, varsBox>>

\* the triangles (vertices[i1], vertices[i_k], vertices[i_k+1]), k = 2..n-1, of the
\* indices a face record lists
RECURSIVE FanOfIndices(_, _, _)
FanOfIndices(table, indices, k) ==
    IF k >= Len(indices) THEN <<>>
    ELSE <<<<At(table, indices[1]), At(table, indices[k]), At(table, indices[k + 1])>>>>
         \o FanOfIndices(table, indices, k + 1)

PointsOf(shapes) == [k \in 1..Len(shapes) |-> <<shapes[k].p1, shapes[k].p2, shapes[k].p3>>]

IndicesInRange(f) ==
    /\ \A k \in 1..Len(f.face.points) : InRange(f.vertices, f.face.points[k])
    /\ \A k \in 1..Len(f.face.vertex_normals) : InRange(f.normals, f.face.vertex_normals[k])

\* C15: a face record with n > 3 indices adds exactly n-2 triangles, the k-th being
\* (vertices[i1], vertices[i_k], vertices[i_k+1]), built from the indices the record
\* lists, whatever the number of vertices defined and the order of the indices.
C15_FanOfListedIndices ==
    (lastFace # None /\ Len(lastFace[1].face.points) > 3 /\ IndicesInRange(lastFace[1])) =>
        /\ parsing # "panicked"
        /\ PointsOf(lastFace[1].added)
              = FanOfIndices(lastFace[1].vertices, lastFace[1].face.points, 2)

\* C16: a face record that references a vertex or a normal beyond the tables parsed
\* so far is skipped: one more line ignored, no triangle added, and parsing goes on.
C16_OutOfRangeSkipped ==
    (lastFace # None /\ ~IndicesInRange(lastFace[1])) =>
        /\ parsing # "panicked"
        /\ lastFace[1].added = <<>>
        /\ lastFace[1].ignored = 1

\* ------------------------------------- shape.rs: Shape::intersect under render
\* Matrix::identity(4)
identity4 == <<<<1, 0, 0, 0>>, <<0, 1, 0, 0>>, <<0, 0, 1, 0>>, <<0, 0, 0, 1>>>>

\* transformation::translate and transformation::scale
translate(x, y, z) == [identity4 EXCEPT ![1][4] = x, ![2][4] = y, ![3][4] = z]
scale(x, y, z) == [identity4 EXCEPT ![1][1] = x, ![2][2] = y, ![3][3] = z]

\* the transforms the objects are given: the last two are singular
SceneTransforms == {identity4, translate(1, 0, 2), scale(2, 1, 1), scale(0, 1, 1), scale(1, 1, 0)}

Singular(m) == determinant(m.values) = 0

IdleScene ==
    /\ world = <<>>
    /\ canvasSize = None
    /\ rendering = "building"
    /\ at = <<0, 0, 1>>
    /\ written = {}

InitScene == pc = "start" /\ IdleScene /\ IdleMatrix

\* world.objects.push(shape) with shape.set_transform(transform)
WorldAdd ==
    /\ rendering = "building"
    /\ Len(world) < MaxScene
    /\ \E values \in SceneTransforms :
          world' = Append(world, [id |-> matrixId, values |-> values])
    /\ matrixId' = matrixId + 1
    /\ UNCHANGED <<canvasSize, rendering, at, written, matrices, cachedInverses, lastInverse,
                   pc, varsHit, varsCsg, varsShadow, varsColor, varsCamera, varsGroup, varsIds,
                   varsObj, varsNormal, varsFold, varsWorld, varsTree, varsComp, varsPpm,
                   varsDivide, varsRace, varsBox>>

\* camera.render(world): Canvas::new(hsize, vsize), y = 0, x = 0
RenderBegin ==
    /\ rendering = "building"
    /\ \E hsize0 \in 1..MaxCanvas, vsize0 \in 1..MaxCanvas : canvasSize' = Some(<<hsize0, vsize0>>)
    /\ rendering' = "rendering"
    /\ UNCHANGED <<world, at, written, varsMatrix, pc, varsHit, varsCsg, varsShadow, varsColor,
                   varsCamera, varsGroup, varsIds, varsObj, varsNormal, varsFold, varsWorld,
                   varsTree, varsComp, varsPpm, varsDivide, varsRace, varsBox>>

InLoop ==
    /\ rendering = "rendering"
    /\ at[2] < canvasSize[1][2] - 1
    /\ at[1] < canvasSize[1][1] - 1

\* intersect_world: o.intersect(ray), whose first line is
\* self.get_transform().inverse().unwrap()
Unwrapped(inverted) ==
    IF inverted.result = None
    THEN /\ rendering' = "panicked"
         /\ UNCHANGED <<at, cachedInverses>>
    ELSE /\ rendering' = rendering
         /\ at' = [at EXCEPT ![3] = @ + 1]
         /\ cachedInverses' = inverted.cached

ObjectIntersect ==
    /\ InLoop
    /\ at[3] <= Len(world)
    /\ Unwrapped(inverse(world[at[3]], cachedInverses))
    /\ UNCHANGED <<world, canvasSize, written, matrices, matrixId, lastInverse, pc, varsHit,
                   varsCsg, varsShadow, varsColor, varsCamera, varsGroup, varsIds, varsObj,
                   varsNormal, varsFold, varsWorld, varsTree, varsComp, varsPpm, varsDivide,
                   varsRace, varsBox>>

\* image.write_pixel(x, y, color) and the next x
PixelWritten ==
    /\ InLoop
    /\ at[3] > Len(world)
    /\ written' = written \cup {<<at[1], at[2]>>}
    /\ at' = <<at[1] + 1, at[2], 1>>
    /\ UNCHANGED <<world, canvasSize, rendering, varsMatrix, pc, varsHit, varsCsg, varsShadow,
                   varsColor, varsCamera, varsGroup, varsIds, varsObj, varsNormal, varsFold,
                   varsWorld, varsTree, varsComp, varsPpm, varsDivide, varsRace, varsBox>>

\* the end of the loop over x: the next y
RowDone ==
    /\ rendering = "rendering"
    /\ at[2] < canvasSize[1][2] - 1
    /\ at[1] >= canvasSize[1][1] - 1
    /\ at' = <<0, at[2] + 1, 1>>
    /\ UNCHANGED <<world, canvasSize, rendering, written, varsMatrix, pc, varsHit, varsCsg,
                   varsShadow, varsColor, varsCamera, varsGroup, varsIds, varsObj, varsNormal,
                   varsFold, varsWorld, varsTree, varsComp, varsPpm, varsDivide, varsRace,
                   varsBox>>

\* the end of the loop over y: render returns the image
RenderDone ==
    /\ rendering = "rendering"
    /\ at[2] >= canvasSize[1][2] - 1
    /\ rendering' = "returned"
    /\ UNCHANGED <<world, canvasSize, at, written, varsMatrix, pc, varsHit, varsCsg,
                   varsShadow, varsColor, varsCamera, varsGroup, varsIds, varsObj, varsNormal,
                   varsFold, varsWorld, varsTree, varsComp, varsPpm, varsDivide, varsRace,
                   varsBox>>

\* C17: rendering a world that holds a shape with a singular transform completes:
\* the failure of Matrix::inverse on that transform does not abort the render.
C17_SingularDoesNotAbort ==
    (\E k \in 1..Len(world) : Singular(world[k])) => rendering # "panicked"

\* ------------------------------------------------ shape.rs: Shape::normal_at
Whole(n) == Quotient(n, 1)
QAdd(a, b) == Quotient(a.n * b.d + b.n * a.d, a.d * b.d)
QMul(a, b) == Quotient(a.n * b.n, a.d * b.d)
QDiv(a, b) == Quotient(a.n * b.d, a.d * b.n)

\* Tuple::point and Tuple::vector
TuplePoint(x, y, z) == <<Whole(x), Whole(y), Whole(z), Whole(1)>>
TupleVector(x, y, z) == <<Whole(x), Whole(y), Whole(z), Whole(0)>>

\* Matrix * Tuple, for a matrix of quotients
RowTimes(row, tuple) ==
    QAdd(QAdd(QMul(row[1], tuple[1]), QMul(row[2], tuple[2])),
         QAdd(QMul(row[3], tuple[3]), QMul(row[4], tuple[4])))

TimesTuple(values, tuple) ==
    <<RowTimes(values[1], tuple), RowTimes(values[2], tuple),
      RowTimes(values[3], tuple), RowTimes(values[4], tuple)>>

\* Matrix::transpose
transpose(values) ==
    [row \in 1..Len(values) |-> [column \in 1..Len(values) |-> values[column][row]]]

\* Tuple::magnitude and Tuple::normalize
SquareSum(tuple) ==
    QAdd(QAdd(QMul(tuple[1], tuple[1]), QMul(tuple[2], tuple[2])),
         QAdd(QMul(tuple[3], tuple[3]), QMul(tuple[4], tuple[4])))

Root(q) == Quotient(Sqrt(q.n), Sqrt(q.d))

normalize(tuple) ==
    <<QDiv(tuple[1], Root(SquareSum(tuple))), QDiv(tuple[2], Root(SquareSum(tuple))),
      QDiv(tuple[3], Root(SquareSum(tuple))), QDiv(tuple[4], Root(SquareSum(tuple)))>>

\* what a call comes to: a panic, or the value it returns
Panic == [panicked |-> TRUE, value |-> <<>>]
Value(v) == [panicked |-> FALSE, value |-> v]

\* Plane::normal_at
plane_normal_at(point_in_object) == Value(TupleVector(0, 1, 0))

\* Group::normal_at that answers as a plane does
group_normal_at_vector(point_in_object, hit_at) == Value(TupleVector(0, 1, 0))

\* Group::normal_at: panic!("Normal at cannot be calculated on a group.")
group_normal_at(point_in_object, hit_at) == Panic

\* CSG::normal_at: panic!("Normal at cannot be calculated on a csg.")
csg_normal_at(point_in_object, hit_at) == Panic

\* Shape::normal_at: the arm of the match for Shape::CSG
csg_arm(point_in_object, hit_at) == csg_normal_at(point_in_object, hit_at)

\* the variant's normal_at
variant_normal_at(kind, point_in_object, hit_at) ==
    CASE kind = "Plane" -> plane_normal_at(point_in_object)
      [] kind = "Group" -> group_normal_at(point_in_object, hit_at)
      [] kind = "CSG" -> csg_normal_at(point_in_object, hit_at)

\* Shape::normal_at: let local_normal = match self { .. }
match_normal_at(kind, point_in_object, hit_at) ==
    CASE kind = "Plane" -> plane_normal_at(point_in_object)
      [] kind = "Group" -> group_normal_at(point_in_object, hit_at)
      [] kind = "CSG" -> csg_arm(point_in_object, hit_at)

\* Shape::normal_to_world of a shape without parent
normal_to_world(inverted, normal) ==
    normalize([TimesTuple(transpose(inverted), normal) EXCEPT ![4] = Whole(0)])

\* the shapes, transforms, points and hits normal_at is called with
NormalKinds == {"Plane", "Group", "CSG"}
NormalTransforms == {identity4, translate(1, 0, 2), scale(2, 1, 1), scale(0, 1, 1)}
NormalPoints == {TuplePoint(0, 0, 0), TuplePoint(1, 0, 2), TuplePoint(0, 2, 0)}
NormalHits == {1, 2}

IdleNormal ==
    /\ normalCall = None
    /\ normalStage = "idle"
    /\ local_point = None
    /\ local_normal = None
    /\ normalResult = None

InitNormal == pc = "start" /\ IdleNormal /\ IdleMatrix

Outcome(made) == IF made.panicked THEN "panicked" ELSE "returned"

\* group.normal_at(point, &hit), csg.normal_at(point, hit), plane.normal_at(point)
NormalAtDirect ==
    /\ normalStage = "idle"
    /\ \E kind \in NormalKinds, p \in NormalPoints, t \in NormalHits :
          \E made \in {variant_normal_at(kind, p, t)} :
              /\ normalCall' = Some([kind |-> kind, direct |-> TRUE, transform |-> identity4,
                                     world_point |-> p, hit |-> t])
              /\ normalStage' = Outcome(made)
              /\ normalResult' = IF made.panicked THEN None ELSE Some(made.value)
    /\ UNCHANGED <<local_point, local_normal, varsMatrix, pc, varsHit, varsCsg, varsShadow,
                   varsColor, varsCamera, varsGroup, varsIds, varsObj, varsScene, varsFold,
                   varsWorld, varsTree, varsComp, varsPpm, varsDivide, varsRace, varsBox>>

\* shape.set_transform(transform); shape.normal_at(world_point, hit)
NormalAtCall ==
    /\ normalStage = "idle"
    /\ \E kind \in NormalKinds, values \in NormalTransforms, p \in NormalPoints,
          t \in NormalHits :
          normalCall' = Some([kind |-> kind, direct |-> FALSE,
                              transform |-> [id |-> matrixId, values |-> values],
                              world_point |-> p, hit |-> t])
    /\ matrixId' = matrixId + 1
    /\ normalStage' = "called"
    /\ UNCHANGED <<local_point, local_normal, normalResult, matrices, cachedInverses,
                   lastInverse, pc, varsHit, varsCsg, varsShadow, varsColor, varsCamera,
                   varsGroup, varsIds, varsObj, varsScene, varsFold, varsWorld, varsTree,
                   varsComp, varsPpm, varsDivide, varsRace, varsBox>>

\* let local_point = self.world_to_object(world_point), the shape having no parent
WorldToObject ==
    /\ normalStage = "called"
    /\ \E inverted \in {inverse(normalCall[1].transform, cachedInverses)} :
          IF inverted.result = None
          THEN /\ normalStage' = "panicked"
               /\ UNCHANGED <<local_point, cachedInverses>>
          ELSE /\ normalStage' = "local"
               /\ local_point' = Some(TimesTuple(inverted.result[1].values,
                                                 normalCall[1].world_point))
               /\ cachedInverses' = inverted.cached
    /\ UNCHANGED <<normalCall, local_normal, normalResult, matrices, matrixId, lastInverse, pc,
                   varsHit, varsCsg, varsShadow, varsColor, varsCamera, varsGroup, varsIds,
                   varsObj, varsScene, varsFold, varsWorld, varsTree, varsComp, varsPpm,
                   varsDivide, varsRace, varsBox>>

\* let local_normal = match self { .. }
LocalNormalAt ==
    /\ normalStage = "local"
    /\ \E made \in {match_normal_at(normalCall[1].kind, local_point[1], normalCall[1].hit)} :
          /\ normalStage' = IF made.panicked THEN "panicked" ELSE "normal"
          /\ local_normal' = IF made.panicked THEN None ELSE Some(made.value)
    /\ UNCHANGED <<normalCall, local_point, normalResult, varsMatrix, pc, varsHit, varsCsg,
                   varsShadow, varsColor, varsCamera, varsGroup, varsIds, varsObj, varsScene,
                   varsFold, varsWorld, varsTree, varsComp, varsPpm, varsDivide, varsRace,
                   varsBox>>

\* self.normal_to_world(local_normal)
NormalToWorld ==
    /\ normalStage = "normal"
    /\ \E inverted \in {inverse(normalCall[1].transform, cachedInverses)} :
          /\ cachedInverses' = inverted.cached
          /\ normalResult' = Some(normal_to_world(inverted.result[1].values, local_normal[1]))
    /\ normalStage' = "returned"
    /\ UNCHANGED <<normalCall, local_point, local_normal, matrices, matrixId, lastInverse, pc,
                   varsHit, varsCsg, varsShadow, varsColor, varsCamera, varsGroup, varsIds,
                   varsObj, varsScene, varsFold, varsWorld, varsTree, varsComp, varsPpm,
                   varsDivide, varsRace, varsBox>>

\* C18: normal_at on a Group or on a CSG never returns a vector: it panics, for
\* every point and hit, called directly or through Shape::normal_at.
C18_NoNormalOfGroupOrCsg ==
    (normalCall # None /\ normalCall[1].kind \in {"Group", "CSG"}) =>
        /\ normalResult = None
        /\ normalStage \in {"called", "local", "panicked"}
        /\ normalCall[1].direct => normalStage = "panicked"

C18_Witness ==
    /\ normalCall # None
    /\ normalCall[1].kind = "Group"
    /\ ~normalCall[1].direct
    /\ local_point # None
    /\ normalStage = "panicked"

\* --------------------------------------- group.rs: Group::intersect, step by step
IdleFold ==
    /\ groupRay = None
    /\ invoked = <<>>
    /\ gathered = <<>>
    /\ groupHits = None

\* the rays group.intersect is called with: two along x, of which the first
\* passes the cylinders side-on, one along z, and the one that drifts
FoldRays ==
    { Ray(<<Fixed(-10), 0, 0>>, <<1, 0, 0>>),
      Ray(<<Fixed(-10), Fixed(2), 0>>, <<1, 0, 0>>),
      Ray(<<Fixed(-2), 0, Fixed(-5)>>, <<0, 0, 1>>),
      DriftRay(<<0, -(2 * DriftSpan) * 2 - Fixed(1), 0>>, <<0, 1, 0>>, <<1, 0, 0>>) }

\* Group::intersect that looks at no box
box_hit_always(box, r) == TRUE

\* Group::intersect: self.bounds_of().intersects(ray)
box_hit(box, r) == intersects(box, r)

\* Group::intersect that returns the intersections as the fold left them
sort_by_t_skipped(list) == list

\* Group::intersect: intersections.sort_by(|a, b| a.t.partial_cmp(&b.t).unwrap())
sort_by_t(list) == SortByT(list)

\* group.intersect(ray) with a ray the box test lets through
GroupIntersectHit ==
    /\ pc \in {"start", "done"}
    /\ group.shapes # <<>>
    /\ \E box \in {bounds_of(group)} :
          \E r \in FoldRays :
              /\ box_hit(box, r)
              /\ groupRay' = Some(r)
    /\ pc' = "intersecting"
    /\ UNCHANGED <<invoked, gathered, groupHits, varsGroup, varsHit, varsCsg, varsShadow,
                   varsColor, varsCamera, varsMatrix, varsIds, varsObj, varsScene, varsNormal,
                   varsWorld, varsTree, varsComp, varsPpm, varsDivide, varsRace, varsBox>>

\* group.intersect(ray) with a ray the box test rejects: vec![]
GroupIntersectMiss ==
    /\ pc \in {"start", "done"}
    /\ group.shapes # <<>>
    /\ \E box \in {bounds_of(group)} :
          \E r \in FoldRays :
              /\ ~box_hit(box, r)
              /\ groupRay' = Some(r)
    /\ groupHits' = Some(<<>>)
    /\ pc' = "intersected"
    /\ UNCHANGED <<invoked, gathered, varsGroup, varsHit, varsCsg, varsShadow, varsColor,
                   varsCamera, varsMatrix, varsIds, varsObj, varsScene, varsNormal, varsWorld,
                   varsTree, varsComp, varsPpm, varsDivide, varsRace, varsBox>>

\* the fold: intersections.append(&mut shape.intersect(ray)) for the next child
FoldChild ==
    /\ pc = "intersecting"
    /\ Len(invoked) < Len(group.shapes)
    /\ gathered' = gathered \o ShapeIntersect(group.shapes[Len(invoked) + 1], groupRay[1])
    /\ invoked' = Append(invoked, Len(invoked) + 1)
    /\ UNCHANGED <<pc, groupRay, groupHits, varsGroup, varsHit, varsCsg, varsShadow, varsColor,
                   varsCamera, varsMatrix, varsIds, varsObj, varsScene, varsNormal, varsWorld,
                   varsTree, varsComp, varsPpm, varsDivide, varsRace, varsBox>>

\* the end of the fold: sort and return
FoldReturn ==
    /\ pc = "intersecting"
    /\ Len(invoked) = Len(group.shapes)
    /\ groupHits' = Some(sort_by_t(gathered))
    /\ pc' = "intersected"
    /\ UNCHANGED <<groupRay, invoked, gathered, varsGroup, varsHit, varsCsg, varsShadow,
                   varsColor, varsCamera, varsMatrix, varsIds, varsObj, varsScene, varsNormal,
                   varsWorld, varsTree, varsComp, varsPpm, varsDivide, varsRace, varsBox>>

\* the intersections the children return, in child order
RECURSIVE ChildHits(_, _, _)
ChildHits(shapes, r, k) ==
    IF k > Len(shapes) THEN <<>>
    ELSE ShapeIntersect(shapes[k], r) \o ChildHits(shapes, r, k + 1)

Occurrences(list, x) == Cardinality({i \in 1..Len(list) : list[i] = x})

C19_WitnessMiss ==
    /\ pc = "intersected"
    /\ groupRay # None
    /\ ~intersects(bounds_of(group), groupRay[1])
    /\ Cylinders(group) # {}

\* C20 as stated: Group::intersect does not sort, its result is the children's
\* lists concatenated in child order whatever their t values.
C20_ConcatenatedInChildOrder ==
    (pc = "intersected" /\ invoked # <<>>) =>
        groupHits[1] = ChildHits(group.shapes, groupRay[1], 1)

\* C20, amended: Group::intersect sorts, its result is the children's lists
\* concatenated in child order and then sorted by ascending t, intersections of
\* equal t staying in the order of the concatenation.
StableOrder(sorted, list) ==
    \A i, j \in 1..Len(list) :
        (i < j /\ list[i].t = list[j].t /\ list[i] # list[j]) =>
            \E a, b \in 1..Len(sorted) : a < b /\ sorted[a] = list[i] /\ sorted[b] = list[j]

SortedFrom(sorted, list) ==
    /\ IsSortedByT(sorted)
    /\ Len(sorted) = Len(list)
    /\ \A i \in 1..Len(sorted) : Occurrences(sorted, sorted[i]) = Occurrences(list, sorted[i])
    /\ StableOrder(sorted, list)

C20_SortedConcatenation ==
    (pc = "intersected" /\ invoked # <<>>) =>
        \A returned \in {ChildHits(group.shapes, groupRay[1], 1)} :
            SortedFrom(groupHits[1], returned)

C20_Witness ==
    /\ pc = "intersected"
    /\ invoked # <<>>
    /\ groupHits[1] # ChildHits(group.shapes, groupRay[1], 1)

\* -------------------------------------------------- World::intersect_world
IdleWorld ==
    /\ worldRay = None
    /\ worldCaller = "none"
    /\ worldOutcome = "none"
    /\ worldHits = <<>>

InitWorld == InitShadow /\ IdleWorld

\* the rays of the callers: along y through the spheres in both directions,
\* along x past them, and along y touching the spheres of radius 1
WorldRays ==
    { Ray(<<0, 0, 0>>, <<0, 1, 0>>), Ray(<<0, 0, 0>>, <<0, -1, 0>>),
      Ray(<<0, 0, 0>>, <<1, 0, 0>>), Ray(<<Fixed(1), 0, 0>>, <<0, 1, 0>>) }

\* the points is_shadowed is called with; the last is the light's own position
WorldPoints == {<<0, 0, 0>>, <<0, Fixed(8), 0>>, <<0, Fixed(20), 0>>, <<0, Fixed(10), 0>>}

\* world.objects.push(sphere), between two calls of intersect_world
WorldPush == worldOutcome = "none" /\ AddObject

\* world.intersect_world(ray), as the test intersect_world_with_ray calls it
IntersectWorld ==
    /\ worldOutcome = "none"
    /\ \E r \in WorldRays :
          /\ worldRay' = Some(r)
          /\ worldHits' = intersect_world(objects, r)
    /\ worldCaller' = "test"
    /\ worldOutcome' = "returned"
    /\ UNCHANGED <<pc, varsHit, varsCsg, varsShadow, varsColor, varsCamera, varsGroup,
                   varsMatrix, varsIds, varsObj, varsScene, varsNormal, varsFold, varsTree,
                   varsComp, varsPpm, varsDivide, varsRace, varsBox>>

\* color_at: let intersections = self.intersect_world(ray);
\*           let hit = Intersection::hit(&intersections)
ColorAtIntersections ==
    /\ worldOutcome = "none"
    /\ \E r \in WorldRays :
          /\ worldRay' = Some(r)
          /\ worldHits' = intersect_world(objects, r)
    /\ worldCaller' = "color_at"
    /\ worldOutcome' = "returned"
    /\ UNCHANGED <<pc, varsHit, varsCsg, varsShadow, varsColor, varsCamera, varsGroup,
                   varsMatrix, varsIds, varsObj, varsScene, varsNormal, varsFold, varsTree,
                   varsComp, varsPpm, varsDivide, varsRace, varsBox>>

\* is_shadowed(point) for a point that is not at the light: the ray to the
\* light, intersect_world, Intersection::hit of its list
IsShadowedIntersections ==
    /\ worldOutcome = "none"
    /\ \E p \in WorldPoints :
          /\ p # lights[1].position
          /\ point' = p
          /\ worldRay' = Some(ShadowRay(lights[1], p))
          /\ worldHits' = intersect_world(objects, ShadowRay(lights[1], p))
          /\ shadowed' = Some(is_shadowed(objects, lights, p))
    /\ worldCaller' = "is_shadowed"
    /\ worldOutcome' = "returned"
    /\ UNCHANGED <<pc, objects, lights, varsHit, varsCsg, varsColor, varsCamera, varsGroup,
                   varsMatrix, varsIds, varsObj, varsScene, varsNormal, varsFold, varsTree,
                   varsComp, varsPpm, varsDivide, varsRace, varsBox>>

\* is_shadowed(point) for the point at the light: normalize divides the zero
\* vector by its magnitude 0., the direction is NaN, Sphere::intersect finds the
\* discriminant NaN not below 0. and returns two intersections with t = NaN,
\* and sort_by unwraps partial_cmp's None as soon as it compares two elements
IsShadowedAtLight ==
    /\ worldOutcome = "none"
    /\ \E p \in WorldPoints :
          /\ p = lights[1].position
          /\ point' = p
    /\ worldRay' = None
    /\ worldHits' = <<>>
    /\ worldCaller' = "is_shadowed"
    /\ worldOutcome' = IF 2 * Len(objects) >= 2 THEN "panicked" ELSE "returned"
    /\ shadowed' = IF 2 * Len(objects) >= 2 THEN None ELSE Some(<<FALSE>>)
    /\ UNCHANGED <<pc, objects, lights, varsHit, varsCsg, varsColor, varsCamera, varsGroup,
                   varsMatrix, varsIds, varsObj, varsScene, varsNormal, varsFold, varsTree,
                   varsComp, varsPpm, varsDivide, varsRace, varsBox>>

\* the caller is done with the list
WorldCallReturn ==
    /\ worldOutcome = "returned"
    /\ worldRay' = None
    /\ worldCaller' = "none"
    /\ worldOutcome' = "none"
    /\ worldHits' = <<>>
    /\ UNCHANGED <<pc, varsHit, varsCsg, varsShadow, varsColor, varsCamera, varsGroup,
                   varsMatrix, varsIds, varsObj, varsScene, varsNormal, varsFold, varsTree,
                   varsComp, varsPpm, varsDivide, varsRace, varsBox>>

PermutationOf(list, other) ==
    /\ Len(list) = Len(other)
    /\ \A i \in 1..Len(other) : Occurrences(list, other[i]) = Occurrences(other, other[i])

\* C21: the list intersect_world returns is sorted ascending by t and is a
\* permutation of the concatenation of object.intersect(ray) over the objects
\* of the world, for the test, for color_at and for is_shadowed alike, so the
\* list each of them hands to Intersection::hit is sorted.
C21_SortedPermutation ==
    (worldOutcome = "returned" /\ worldRay # None) =>
        /\ IsSortedByT(worldHits)
        /\ \A returned \in {ConcatIntersections(objects, worldRay[1])} :
              PermutationOf(worldHits, returned)

C21_Witness ==
    /\ worldOutcome = "returned"
    /\ worldCaller \in {"color_at", "is_shadowed"}
    /\ worldRay # None
    /\ Len(worldHits) >= 4
    /\ worldHits # ConcatIntersections(objects, worldRay[1])

\* ------------------------------------------- Shape::get_material and parents
Materials == {"default", "glass"}

\* Shape::Group(Group::new()) and Shape::Sphere(Sphere::new())
NewGroup(id) ==
    [kind |-> "Group", id |-> id, transform |-> Identity, material |-> "default",
     parent |-> None, shapes |-> <<>>]

NewSphere(id) ==
    [kind |-> "Sphere", id |-> id, transform |-> Identity, material |-> "default",
     parent |-> None, shapes |-> <<>>]

\* Shape::set_material: the shape, and the registry after
set_material(shape, material, references) ==
    LET painted == [shape EXCEPT !.material = material]
    IN  [shape |-> painted,
         registry |-> IF shape.kind = "Group" THEN update_group_reference(references, painted)
                      ELSE references]

\* position(|pr| pr.get_id() == parent) as find sees it: the first such entry
Found(references, id) == {i \in 1..Len(references) : references[i].id = id}
First(found) == CHOOSE i \in found : \A j \in found : i <= j

\* get_material that asks the parent for the material it carries itself
get_material_of_parent(shape, references) ==
    IF shape.parent = None THEN Value(shape.material)
    ELSE IF Found(references, shape.parent[1]) = {} THEN Panic
    ELSE Value(references[First(Found(references, shape.parent[1]))].material)

\* Shape::get_material: the parent's entry in PARENT_REFERENCES answers, with
\* its own get_material; find(..).unwrap() panics when there is no entry
RECURSIVE get_material(_, _)
get_material(shape, references) ==
    IF shape.parent = None THEN Value(shape.material)
    ELSE IF Found(references, shape.parent[1]) = {} THEN Panic
    ELSE get_material(references[First(Found(references, shape.parent[1]))], references)

IdleTree ==
    /\ locals = <<>>
    /\ lastMaterial = None
    /\ treeCalls = 0

\* let mut g1 = Shape::Group(Group::new()); let mut g2 = Shape::Group(Group::new());
\* let mut s = Shape::Sphere(Sphere::new()): the groups draw their ids from
\* ID_COUNT, the sphere from the counter of Sphere::new
InitTree ==
    /\ pc = "start"
    /\ IdleGroup
    /\ locals = [g1 |-> NewGroup(1), g2 |-> NewGroup(2), s |-> NewSphere(1)]
    /\ lastMaterial = None
    /\ treeCalls = 0

\* the calls parent.add_child(&mut child) and child.set_parent(id) of the program
ParentAndChild == {<<"g1", "g2">>, <<"g1", "s">>, <<"g2", "s">>}

TreeTransforms == {Transform(<<Fixed(2), 0, 0>>, 1)}

\* parent.add_child(&mut child)
TreeAddChild ==
    /\ treeCalls < MaxCalls
    /\ \E pair \in ParentAndChild :
          /\ \E child \in {set_parent(locals[pair[2]], locals[pair[1]].id, registry)} :
                \E added \in {PushChild(locals[pair[1]], child)} :
                    /\ locals' = [locals EXCEPT ![pair[1]] = added.group,
                                                ![pair[2]] = child.shape]
                    /\ registry' = added.registry
    /\ lastMaterial' = None
    /\ treeCalls' = treeCalls + 1
    /\ UNCHANGED <<pc, group, idCount, threshold, undivided, groupCsg, extracted, varsHit,
                   varsCsg, varsShadow, varsColor, varsCamera, varsMatrix, varsIds, varsObj,
                   varsScene, varsNormal, varsFold, varsWorld, varsComp, varsPpm, varsDivide,
                   varsRace, varsBox>>

\* shape.set_material(material)
TreeSetMaterial ==
    /\ treeCalls < MaxCalls
    /\ \E name \in {"g1", "g2", "s"}, material \in Materials :
          \E painted \in {set_material(locals[name], material, registry)} :
              /\ locals' = [locals EXCEPT ![name] = painted.shape]
              /\ registry' = painted.registry
    /\ lastMaterial' = None
    /\ treeCalls' = treeCalls + 1
    /\ UNCHANGED <<pc, group, idCount, threshold, undivided, groupCsg, extracted, varsHit,
                   varsCsg, varsShadow, varsColor, varsCamera, varsMatrix, varsIds, varsObj,
                   varsScene, varsNormal, varsFold, varsWorld, varsComp, varsPpm, varsDivide,
                   varsRace, varsBox>>

\* group.set_transform(transform)
TreeSetTransform ==
    /\ treeCalls < MaxCalls
    /\ \E name \in {"g1", "g2"}, transform \in TreeTransforms :
          \E moved \in {set_transform(locals[name], transform, registry)} :
              /\ locals' = [locals EXCEPT ![name] = moved.shape]
              /\ registry' = moved.registry
    /\ lastMaterial' = None
    /\ treeCalls' = treeCalls + 1
    /\ UNCHANGED <<pc, group, idCount, threshold, undivided, groupCsg, extracted, varsHit,
                   varsCsg, varsShadow, varsColor, varsCamera, varsMatrix, varsIds, varsObj,
                   varsScene, varsNormal, varsFold, varsWorld, varsComp, varsPpm, varsDivide,
                   varsRace, varsBox>>

\* child.set_parent(*parent.get_id())
TreeSetParent ==
    /\ treeCalls < MaxCalls
    /\ \E pair \in ParentAndChild :
          \E child \in {set_parent(locals[pair[2]], locals[pair[1]].id, registry)} :
              /\ locals' = [locals EXCEPT ![pair[2]] = child.shape]
              /\ registry' = child.registry
    /\ lastMaterial' = None
    /\ treeCalls' = treeCalls + 1
    /\ UNCHANGED <<pc, group, idCount, threshold, undivided, groupCsg, extracted, varsHit,
                   varsCsg, varsShadow, varsColor, varsCamera, varsMatrix, varsIds, varsObj,
                   varsScene, varsNormal, varsFold, varsWorld, varsComp, varsPpm, varsDivide,
                   varsRace, varsBox>>

\* the Shape values the program holds: its variables and the copies in their
\* shapes lists, two levels down
Copies(shape) == {shape.shapes[k] : k \in 1..Len(shape.shapes)}
Held ==
    {locals.g1, locals.g2, locals.s} \cup Copies(locals.g1) \cup Copies(locals.g2)
    \cup UNION {Copies(c) : c \in Copies(locals.g1)}

\* shape.get_material() on any of them
TreeGetMaterial ==
    /\ \E shape \in Held :
          lastMaterial' = Some([shape |-> shape, material |-> get_material(shape, registry)])
    /\ UNCHANGED <<pc, locals, treeCalls, varsGroup, varsHit, varsCsg, varsShadow, varsColor,
                   varsCamera, varsMatrix, varsIds, varsObj, varsScene, varsNormal, varsFold,
                   varsWorld, varsComp, varsPpm, varsDivide, varsRace, varsBox>>

\* the registry entries above a shape: its parent's entry, that entry's parent's, ...
RECURSIVE Above(_, _, _)
Above(ids, references, n) ==
    IF n = 0 THEN ids
    ELSE Above(ids \cup {references[i].parent[1] :
                            i \in {j \in 1..Len(references) :
                                      references[j].id \in ids /\ references[j].parent # None}},
               references, n - 1)

Outermost(shape, references) ==
    {i \in 1..Len(references) :
        /\ references[i].id \in Above({shape.parent[1]}, references, Len(references))
        /\ references[i].parent = None}

\* C22: get_material of a shape with a chain of parents is the material that the
\* registry holds for the outermost of them, the one without a parent, whatever
\* the shape and the groups in between carry; a shape without a parent returns
\* its own material.
C22_MaterialOfOutermost ==
    lastMaterial # None =>
        \A call \in {lastMaterial[1]} :
            IF call.shape.parent = None THEN call.material = Value(call.shape.material)
            ELSE \A i \in Outermost(call.shape, registry) :
                    call.material = Value(registry[i].material)

C22_Witness ==
    /\ lastMaterial # None
    /\ lastMaterial[1].shape = locals.s
    /\ locals.s.parent = Some(2)
    /\ locals.g2.parent = Some(1)
    /\ locals.s.material = "glass"
    /\ locals.g2.material = "glass"
    /\ Outermost(locals.s, registry) # {}
    /\ lastMaterial[1].material = Value("default")

\* the ids of the children a group value carries
ChildIds(shape) == [k \in 1..Len(shape.shapes) |-> shape.shapes[k].id]

\* a copy of a group says what the registry entry of that group says
AgreesWithRegistry(copy, references) ==
    /\ Found(references, copy.id) # {}
    /\ \A entry \in {references[First(Found(references, copy.id))]} :
          /\ entry.transform = copy.transform
          /\ entry.material = copy.material
          /\ entry.parent = copy.parent
          /\ ChildIds(entry) = ChildIds(copy)

\* the shapes Group::intersect of a group value reaches: the copies in its
\* shapes list and, for a copy that is a group, the copies in that one's list
Reached(shape) == Copies(shape) \cup UNION {Copies(c) : c \in Copies(shape)}

\* C27: the copy of a child group in its parent's shapes list agrees with that
\* child's entry in the parent registry (transform, material, parent, child
\* ids), so that a shape added to g2 after g2 was added to g1 is among the
\* shapes g1.intersect reaches.
C27_CopiesAgreeWithRegistry ==
    /\ \A parent \in {locals.g1, locals.g2} :
          \A copy \in Copies(parent) :
              copy.kind = "Group" => AgreesWithRegistry(copy, registry)
    /\ (\E copy \in Copies(locals.g1) : copy.kind = "Group" /\ copy.id = locals.g2.id) =>
          \A child \in Copies(locals.g2) :
              \E reached \in Reached(locals.g1) :
                  reached.kind = child.kind /\ reached.id = child.id

\* ------------------------------------ Intersection::prepare_computations
\* the objects of the intersections and their material.refractive_index in
\* tenths, as in finding_n1_and_n2_at_various_intersections
CompObjects == {1, 2}
refractive_index(object) == <<15, 20>>[object]

\* impl PartialEq for Intersection: near_eq(self.t, other.t) && self.object == other.object;
\* two t of the model differ by a half unit or not at all
intersection_eq(a, b) == a.t = b.t /\ a.object = b.object

\* containers.contains(&object) and containers.iter().position(|con| *con == object)
contains(list, object) == \E i \in 1..Len(list) : list[i] = object
position(list, object) == CHOOSE i \in 1..Len(list) : list[i] = object /\ \A j \in 1..(i - 1) : list[j] # object

\* containers.remove(index) that removes the last element (pop)
remove_last(list, index) == SubSeq(list, 1, Len(list) - 1)

\* containers.remove(index)
remove(list, index) == SubSeq(list, 1, index - 1) \o SubSeq(list, index + 1, Len(list))

\* the if / else on containers of one pass of the loop
Toggled(list, object) ==
    IF contains(list, object) THEN remove(list, position(list, object))
    ELSE Append(list, object)

\* if containers.is_empty() { 1. } else { containers.last().unwrap().get_material().refractive_index }
LastIndex(list) == IF list = <<>> THEN 10 ELSE refractive_index(list[Len(list)])

\* the sorted lists prepare_computations is given
CompHits == {Intersection(t, object) : t \in 1..MaxT, object \in CompObjects}
CompLists ==
    {xs \in UNION {[1..n -> CompHits] : n \in 1..MaxHits} : IsSortedByT(xs)}

IdleComp ==
    /\ compXs = <<>>
    /\ compSelf = None
    /\ compAt = 0
    /\ containers = <<>>
    /\ comp_n1 = 0
    /\ comp_n2 = 0
    /\ compStage = "idle"

InitComp == pc = "start" /\ IdleComp

\* hit.prepare_computations(ray, intersections) up to the loop: n1 = 0., n2 = 0.,
\* containers = Vec::new()
PrepareComputations ==
    /\ compStage = "idle"
    /\ \E xs \in CompLists :
          /\ compXs' = xs
          /\ \E k \in 1..Len(xs) : compSelf' = Some(xs[k])
    /\ compAt' = 1
    /\ containers' = <<>>
    /\ comp_n1' = 0
    /\ comp_n2' = 0
    /\ compStage' = "loop"
    /\ UNCHANGED <<pc, varsHit, varsCsg, varsShadow, varsColor, varsCamera, varsGroup,
                   varsMatrix, varsIds, varsObj, varsScene, varsNormal, varsFold, varsWorld,
                   varsTree, varsPpm, varsDivide, varsRace, varsBox>>

\* one pass of for intersection in intersections
PrepareStep ==
    /\ compStage = "loop"
    /\ compAt <= Len(compXs)
    /\ comp_n1' = IF intersection_eq(compXs[compAt], compSelf[1]) THEN LastIndex(containers) ELSE comp_n1
    /\ containers' = Toggled(containers, compXs[compAt].object)
    /\ comp_n2' = IF intersection_eq(compXs[compAt], compSelf[1])
             THEN LastIndex(Toggled(containers, compXs[compAt].object)) ELSE comp_n2
    /\ compAt' = compAt + 1
    /\ UNCHANGED <<pc, compXs, compSelf, compStage, varsHit, varsCsg, varsShadow, varsColor,
                   varsCamera, varsGroup, varsMatrix, varsIds, varsObj, varsScene, varsNormal,
                   varsFold, varsWorld, varsTree, varsPpm, varsDivide, varsRace, varsBox>>

\* Computations { .., n1, n2, .. } after the last pass
PrepareReturn ==
    /\ compStage = "loop"
    /\ compAt > Len(compXs)
    /\ compStage' = "returned"
    /\ UNCHANGED <<pc, compXs, compSelf, compAt, containers, comp_n1, comp_n2, varsHit,
                   varsCsg, varsShadow, varsColor, varsCamera, varsGroup, varsMatrix, varsIds,
                   varsObj, varsScene, varsNormal, varsFold, varsWorld, varsTree, varsPpm,
                   varsDivide, varsRace, varsBox>>

\* containers after the first k intersections of the list
RECURSIVE ContainersAfter(_, _)
ContainersAfter(xs, k) ==
    IF k = 0 THEN <<>> ELSE Toggled(ContainersAfter(xs, k - 1), xs[k].object)

FirstEqual(xs, h) ==
    CHOOSE k \in 1..Len(xs) :
        intersection_eq(xs[k], h) /\ \A j \in 1..(k - 1) : ~intersection_eq(xs[j], h)

\* C23: for a hit h of the sorted list xs, n1 is the refractive index of the last
\* object in containers just before h is processed and n2 that of the last object
\* just after (1.0 when containers is empty), containers being built from the
\* intersections before h; of several elements equal to h the first decides.
C23_IndicesAtFirstEqual ==
    compStage = "returned" =>
        \A first \in {FirstEqual(compXs, compSelf[1])} :
            /\ comp_n1 = LastIndex(ContainersAfter(compXs, first - 1))
            /\ comp_n2 = LastIndex(ContainersAfter(compXs, first))

TimesIn(xs, object) == Cardinality({k \in 1..Len(xs) : xs[k].object = object})

Members(list) == {list[i] : i \in 1..Len(list)}

\* what is left of a list without an object, in the order of the list
RECURSIVE Rest(_, _)
Rest(list, object) ==
    IF list = <<>> THEN <<>>
    ELSE IF Head(list) = object THEN Rest(Tail(list), object)
    ELSE <<Head(list)>> \o Rest(Tail(list), object)

\* a pass of the loop removes the object of the intersection from containers
\* when it is there, leaving the others as they were, and appends it otherwise
PassTogglesObject ==
    (compStage = "loop" /\ compAt' = compAt + 1) =>
        \A object \in {compXs[compAt].object} :
            IF object \in Members(containers)
            THEN containers' = Rest(containers, object) /\ Len(containers') = Len(containers) - 1
            ELSE containers' = containers \o <<object>>

\* after the last pass containers is empty iff every object occurs an even
\* number of times in the list
EmptyIffMatched ==
    (compStage = "loop" /\ compAt > Len(compXs)) =>
        (containers = <<>> <=> \A object \in CompObjects : TimesIn(compXs, object) % 2 = 0)

Digit(d) == <<"0", "1", "2", "3", "4", "5", "6", "7", "8", "9">>[d + 1]

RECURSIVE to_string(_)
to_string(n) == IF n < 10 THEN <<Digit(n)>> ELSE to_string(n \div 10) \o <<Digit(n % 10)>>

\* Canvas::scale_color of a channel in tenths: clamp, times 255, round
scale_color(color_value) ==
    IF color_value > 10 THEN 255
    ELSE IF color_value < 0 THEN 0
    ELSE (color_value * 255 * 2 + 10) \div 20

\* the test of canvas_to_ppm that never ends a line early
line_full_never(len, value_len) == FALSE

\* canvas_to_ppm: pixel_color.len() + red.len() >= 70
line_full(len, value_len) == len + value_len >= 70

\* String::pop
pop(string) == IF string = <<>> THEN <<>> ELSE SubSeq(string, 1, Len(string) - 1)

\* pixel_color.pop(); pixel_color.push_str("\n"); ppm_data.push_str(pixel_color);
\* pixel_color.clear()
Flushed(data, line) == [data |-> data \o pop(line) \o <<"\n">>, line |-> <<>>]

\* the if on the line length and pixel_color.push_str(value + " ")
Pushed3(out, value) ==
    IF line_full(Len(out.line), Len(value))
    THEN [data |-> Flushed(out.data, out.line).data, line |-> value \o <<" ">>]
    ELSE [data |-> out.data, line |-> out.line \o value \o <<" ">>]

\* the if (pos + 1) % self.width == 0 at the end of a pass
RowEnd(out, pos, width) ==
    IF (pos + 1) % width = 0 THEN Flushed(out.data, out.line) ELSE out

\* one pass of for (pos, pixel) in self.pixels.iter().enumerate()
Pass(out, pixel, pos, width) ==
    RowEnd(Pushed3(Pushed3(Pushed3(out, to_string(scale_color(pixel[1]))),
                           to_string(scale_color(pixel[2]))),
                   to_string(scale_color(pixel[3]))),
           pos, width)

\* "P3\n", "{} {}\n" of width and height, "{}\n" of MAX_COLOR
Header(width, height) ==
    <<"P", "3", "\n">> \o to_string(width) \o <<" ">> \o to_string(height) \o <<"\n">>
    \o to_string(255) \o <<"\n">>

\* the colors written to the canvas, pixel after pixel and over again, channels
\* in tenths: those of splitting_long_lines_in_ppm_files, BLACK, those of
\* constructing_ppm_pixel_data, and a mix of short and long numbers
Patterns ==
    { <<<<10, 8, 6>>>>, <<<<0, 0, 0>>>>,
      <<<<15, 0, 0>>, <<0, 5, 0>>, <<-5, 0, 10>>>>,
      <<<<0, 0, 0>>, <<0, 0, 0>>, <<0, 0, 0>>, <<0, 0, 0>>, <<0, 1, 10>>>> }

Painted(width, height, pattern) ==
    [width |-> width, height |-> height,
     pixels |-> [k \in 1..width * height |-> pattern[((k - 1) % Len(pattern)) + 1]]]

IdlePpm ==
    /\ ppmCanvas = None
    /\ ppm_data = <<>>
    /\ pixel_color = <<>>
    /\ ppmPos = 0
    /\ ppmStage = "idle"

InitPpm == pc = "start" /\ IdlePpm

\* Canvas::new(width, height) and the write_pixel calls
CanvasNew ==
    /\ ppmStage = "idle"
    /\ \E width \in 0..MaxWidth, height \in 0..MaxHeight, pattern \in Patterns :
          ppmCanvas' = Some(Painted(width, height, pattern))
    /\ ppmStage' = "built"
    /\ UNCHANGED <<pc, ppm_data, pixel_color, ppmPos, varsHit, varsCsg, varsShadow, varsColor,
                   varsCamera, varsGroup, varsMatrix, varsIds, varsObj, varsScene, varsNormal,
                   varsFold, varsWorld, varsTree, varsComp, varsDivide, varsRace, varsBox>>

\* canvas.canvas_to_ppm() up to the loop
CanvasToPpm ==
    /\ ppmStage = "built"
    /\ ppm_data' = Header(ppmCanvas[1].width, ppmCanvas[1].height)
    /\ pixel_color' = <<>>
    /\ ppmPos' = 0
    /\ ppmStage' = "loop"
    /\ UNCHANGED <<pc, ppmCanvas, varsHit, varsCsg, varsShadow, varsColor, varsCamera,
                   varsGroup, varsMatrix, varsIds, varsObj, varsScene, varsNormal, varsFold,
                   varsWorld, varsTree, varsComp, varsDivide, varsRace, varsBox>>

\* one pass of the loop over the pixels
PpmPixel ==
    /\ ppmStage = "loop"
    /\ ppmPos < Len(ppmCanvas[1].pixels)
    /\ \E out \in {Pass([data |-> ppm_data, line |-> pixel_color],
                        ppmCanvas[1].pixels[ppmPos + 1], ppmPos, ppmCanvas[1].width)} :
          /\ ppm_data' = out.data
          /\ pixel_color' = out.line
    /\ ppmPos' = ppmPos + 1
    /\ UNCHANGED <<pc, ppmCanvas, ppmStage, varsHit, varsCsg, varsShadow, varsColor,
                   varsCamera, varsGroup, varsMatrix, varsIds, varsObj, varsScene, varsNormal,
                   varsFold, varsWorld, varsTree, varsComp, varsDivide, varsRace, varsBox>>

\* ppm_data is returned
PpmReturn ==
    /\ ppmStage = "loop"
    /\ ppmPos = Len(ppmCanvas[1].pixels)
    /\ ppmStage' = "returned"
    /\ UNCHANGED <<pc, ppmCanvas, ppm_data, pixel_color, ppmPos, varsHit, varsCsg, varsShadow,
                   varsColor, varsCamera, varsGroup, varsMatrix, varsIds, varsObj, varsScene,
                   varsNormal, varsFold, varsWorld, varsTree, varsComp, varsDivide, varsRace,
                   varsBox>>

\* a text cut at a separator: the pieces between the separators, the last being
\* what follows the last separator
SeparatorsOf(text, separator) == {k \in 1..Len(text) : text[k] = separator}

NthOf(separators, i, len) ==
    IF i = 0 THEN 0
    ELSE IF i > Cardinality(separators) THEN len + 1
    ELSE CHOOSE k \in separators : Cardinality({j \in separators : j < k}) = i - 1

Pieces(text, separators) ==
    [i \in 1..(Cardinality(separators) + 1) |->
        SubSeq(text, NthOf(separators, i - 1, Len(text)) + 1,
               NthOf(separators, i, Len(text)) - 1)]

Split(text, separator) == Pieces(text, SeparatorsOf(text, separator))

LinesOf(text) == Split(text, "\n")
ValuesOf3(line) == Split(line, " ")

\* the decimal numbers of the channels, pixel after pixel
RECURSIVE Channels(_, _)
Channels(pixels, k) ==
    IF k > Len(pixels) THEN <<>>
    ELSE <<to_string(scale_color(pixels[k][1])), to_string(scale_color(pixels[k][2])),
           to_string(scale_color(pixels[k][3]))>> \o Channels(pixels, k + 1)

RECURSIVE Joined(_, _)
Joined(lines, k) ==
    IF k > Len(lines) THEN <<>> ELSE ValuesOf3(lines[k]) \o Joined(lines, k + 1)

\* the number of values on the lines before line k
RECURSIVE ValuesBefore(_, _)
ValuesBefore(lines, k) ==
    IF k <= 1 THEN 0 ELSE ValuesBefore(lines, k - 1) + Len(ValuesOf3(lines[k - 1]))

\* the lines of the pixel data: those after the three of the header, without
\* the empty piece after the final newline
Body(lines) == SubSeq(lines, 4, Len(lines) - 1)

WellWrapped(canvas, lines) ==
    /\ lines[Len(lines)] = <<>>
    /\ \A k \in 1..Len(lines) : Len(lines[k]) <= 70
    /\ \A body \in {Body(lines)} :
          /\ Joined(body, 1) = Channels(canvas.pixels, 1)
          /\ \A row \in 0..(canvas.height - 1) :
                canvas.width > 0 =>
                    \E k \in 1..Len(body) : ValuesBefore(body, k) = row * canvas.width * 3

\* C25: in the output of canvas_to_ppm no line is longer than 70 characters,
\* every line break falls between two channel values, the values of a line are
\* separated by single spaces, each canvas row starts on a new line and the
\* output ends with a newline.
C25_PpmWellWrapped ==
    ppmStage = "returned" => WellWrapped(ppmCanvas[1], LinesOf(ppm_data))

C25_Witness ==
    /\ ppmStage = "returned"
    /\ ppmCanvas[1].height >= 2
    /\ \E k \in 4..Len(LinesOf(ppm_data)) - 1 : Len(LinesOf(ppm_data)[k]) = 69
    /\ Len(LinesOf(ppm_data)) > 4 + ppmCanvas[1].height

\* ------------------------------------------------ Group::partition_children
\* the children of the group that is partitioned: cylinders to either side, a
\* cylinder from y = -2 to y = 2, a disc (minimum = maximum = 0.) and a speck
Tall(cylinder) == [cylinder EXCEPT !.minimum = Fixed(-2), !.maximum = Fixed(2)]
Disc(cylinder) == [cylinder EXCEPT !.minimum = 0, !.maximum = 0]

\* a cylinder under scaling(0., 0., 0.): its parent-space bounds are one point
Speck(id) == Cylinder(id, Transform(<<0, 0, 0>>, 0))

Children(id) ==
    { Cylinder(id, Transform(<<Fixed(-2), 0, 0>>, 1)),
      Cylinder(id, Transform(<<Fixed(2), 0, 0>>, 1)),
      Tall(Cylinder(id, Identity)), Disc(Cylinder(id, Identity)), Speck(id) }

\* group.add_child(&mut cylinder), before the group is partitioned
AddChildToPartition ==
    /\ pc = "start"
    /\ undivided = None
    /\ Len(group.shapes) <= MaxShapes
    /\ \E child \in Children(idCount) :
          \E added \in {add_child(group, child, registry)} :
              /\ group' = added.group
              /\ registry' = added.registry
    /\ idCount' = idCount + 1
    /\ UNCHANGED <<pc, threshold, undivided, groupCsg, extracted, varsHit, varsCsg, varsShadow,
                   varsColor, varsCamera, varsMatrix, varsIds, varsObj, varsScene, varsNormal,
                   varsFold, varsWorld, varsTree, varsComp, varsPpm, varsDivide, varsRace,
                   varsBox>>

\* let (left, right) = group.partition_children()
PartitionGroup ==
    /\ pc = "start"
    /\ undivided = None
    /\ \E parts \in {partition_children(group, registry)} :
          /\ group' = parts.group
          /\ registry' = parts.registry
          /\ extracted' = <<parts.left, parts.right>>
    /\ undivided' = Some(group)
    /\ UNCHANGED <<pc, idCount, threshold, groupCsg, varsHit, varsCsg, varsShadow, varsColor,
                   varsCamera, varsMatrix, varsIds, varsObj, varsScene, varsNormal, varsFold,
                   varsWorld, varsTree, varsComp, varsPpm, varsDivide, varsRace, varsBox>>

\* the children of a group whose parent-space bounds a box contains
Within(shapes, box) ==
    {k \in 1..Len(shapes) : box_contains_box(box, parent_space_bounds_of(shapes[k]))}

PartitionedAs(before, halves, after, left, right) ==
    \A inLeft \in {Within(before.shapes, halves[1])} :
        \A inRight \in {Within(before.shapes, halves[2]) \ inLeft} :
            /\ left = Pick(before.shapes, inLeft, 1)
            /\ right = Pick(before.shapes, inRight, 1)
            /\ after.shapes = Pick(before.shapes, (1..Len(before.shapes)) \ (inLeft \cup inRight), 1)
            /\ Len(left) + Len(right) + Len(after.shapes) = Len(before.shapes)

\* C26: partition_children puts every child into exactly one place and keeps
\* the order within each: the left list if the left half of the group's split
\* bounds contains its parent-space bounds, else the right list if the right
\* half does, else the group; a child in both halves goes left only, none is lost
\* or duplicated, and the group's registry entry holds the reduced child list.
C26_PartitionPlaces ==
    (undivided # None /\ Len(extracted) = 2) =>
        /\ PartitionedAs(undivided[1], split_bounds(bounds_of(undivided[1])), group,
                         extracted[1], extracted[2])
        /\ \A k \in 1..Len(undivided[1].shapes) :
              Occurrences(extracted[1] \o extracted[2] \o group.shapes, undivided[1].shapes[k]) = 1
        /\ Cardinality(Found(registry, group.id)) = 1
        /\ \A i \in Found(registry, group.id) : registry[i] = group

C26_Witness ==
    /\ undivided # None
    /\ Len(extracted) = 2
    /\ extracted[1] # <<>>
    /\ group.shapes # <<>>
    /\ \E k \in Within(undivided[1].shapes, split_bounds(bounds_of(undivided[1]))[1]) :
          k \in Within(undivided[1].shapes, split_bounds(bounds_of(undivided[1]))[2])

\* ------------------------------------------------- Group::divide, call by call
IdleDivide ==
    /\ divStack = <<>>
    /\ divOutcome = "idle"

\* the calls of divide the stack of the thread has room for
DivideLimit == MaxShapes + 3

\* Group::divide up to its loop: the group partitioned and the subgroups made
Entered(shape, thr, references, count) ==
    IF holds_threshold(thr, Len(shape.shapes))
    THEN Subgroups(partition_children(shape, references), count)
    ELSE [group |-> shape, registry |-> references, idCount |-> count]

DivideFrame(entered) == [group |-> entered.group, at |-> 1]
Current == divStack[Len(divStack)]

\* group.divide(threshold) is called and runs up to its loop
DivideCall ==
    /\ pc = "start"
    /\ divOutcome = "idle"
    /\ \E thr \in 1..MaxThreshold :
          \E entered \in {Entered(group, thr, registry, idCount)} :
              /\ threshold' = thr
              /\ divStack' = <<DivideFrame(entered)>>
              /\ registry' = entered.registry
              /\ idCount' = entered.idCount
    /\ undivided' = Some(group)
    /\ divOutcome' = "running"
    /\ UNCHANGED <<pc, group, groupCsg, extracted, varsHit, varsCsg, varsShadow, varsColor,
                   varsCamera, varsMatrix, varsIds, varsObj, varsScene, varsNormal, varsFold,
                   varsWorld, varsTree, varsComp, varsPpm, varsRace, varsBox>>

\* child.divide(threshold) of the loop on a shape that is no group: nothing
DivideLeaf ==
    /\ divOutcome = "running"
    /\ Current.at <= Len(Current.group.shapes)
    /\ Current.group.shapes[Current.at].kind # "Group"
    /\ divStack' = [divStack EXCEPT ![Len(divStack)].at = @ + 1]
    /\ UNCHANGED <<pc, varsGroup, divOutcome, varsHit, varsCsg, varsShadow, varsColor,
                   varsCamera, varsMatrix, varsIds, varsObj, varsScene, varsNormal, varsFold,
                   varsWorld, varsTree, varsComp, varsPpm, varsRace, varsBox>>

\* child.divide(threshold) of the loop on a group, which runs up to its own loop
DivideChild ==
    /\ divOutcome = "running"
    /\ Current.at <= Len(Current.group.shapes)
    /\ Current.group.shapes[Current.at].kind = "Group"
    /\ Len(divStack) < DivideLimit
    /\ \E entered \in {Entered(Current.group.shapes[Current.at], threshold, registry, idCount)} :
          /\ divStack' = Append(divStack, DivideFrame(entered))
          /\ registry' = entered.registry
          /\ idCount' = entered.idCount
    /\ UNCHANGED <<pc, group, threshold, undivided, groupCsg, extracted, divOutcome, varsHit,
                   varsCsg, varsShadow, varsColor, varsCamera, varsMatrix, varsIds, varsObj,
                   varsScene, varsNormal, varsFold, varsWorld, varsTree, varsComp, varsPpm,
                   varsRace, varsBox>>

\* child.divide(threshold) on a group when the stack has no room for the call
DivideOverflow ==
    /\ divOutcome = "running"
    /\ Current.at <= Len(Current.group.shapes)
    /\ Current.group.shapes[Current.at].kind = "Group"
    /\ Len(divStack) >= DivideLimit
    /\ divOutcome' = "overflow"
    /\ UNCHANGED <<pc, divStack, varsGroup, varsHit, varsCsg, varsShadow, varsColor,
                   varsCamera, varsMatrix, varsIds, varsObj, varsScene, varsNormal, varsFold,
                   varsWorld, varsTree, varsComp, varsPpm, varsRace, varsBox>>

\* the loop of a call is over: the call returns, and its group is the child
\* the caller's loop was at
DivideReturn ==
    /\ divOutcome = "running"
    /\ Current.at > Len(Current.group.shapes)
    /\ IF Len(divStack) = 1
       THEN /\ group' = Current.group
            /\ divStack' = <<>>
            /\ divOutcome' = "returned"
       ELSE /\ \E caller \in {divStack[Len(divStack) - 1]} :
                  divStack' =
                      Append(SubSeq(divStack, 1, Len(divStack) - 2),
                             [group |-> [caller.group EXCEPT !.shapes[caller.at] = Current.group],
                              at |-> caller.at + 1])
            /\ UNCHANGED <<group, divOutcome>>
    /\ UNCHANGED <<pc, registry, idCount, threshold, undivided, groupCsg, extracted, varsHit,
                   varsCsg, varsShadow, varsColor, varsCamera, varsMatrix, varsIds, varsObj,
                   varsScene, varsNormal, varsFold, varsWorld, varsTree, varsComp, varsPpm,
                   varsRace, varsBox>>

\* C28: Group::divide(threshold) terminates for every finite group tree and
\* every threshold >= 1, making finitely many subgroups, also when every child
\* of a group lies in the same half of the group's split bounds: the calls of
\* divide never nest deeper than the stack allows, so that each returns.
C28_DivideTerminates == divOutcome # "overflow"

\* ------------------------------ update_group_reference on several threads
\* the threads that build groups, each its own, and the id of the group of each
Threads == 1..MaxThreads

IdleRace ==
    /\ raceIndex = <<>>
    /\ raceAt = <<>>
    /\ raceCalls = <<>>

InitRace ==
    /\ pc = "start"
    /\ IdleGroup
    /\ raceIndex = [t \in Threads |-> None]
    /\ raceAt = [t \in Threads |-> "idle"]
    /\ raceCalls = [t \in Threads |-> 0]

\* the group of a thread when it calls update_group_reference the n-th time
GroupOf(t, n) == [Group(t) EXCEPT !.transform = Transform(<<Fixed(n), 0, 0>>, 1)]

\* read_reference.iter().position(|pr| pr.get_id() == *group.get_id()), from 0
position_of(references, id) ==
    IF Found(references, id) = {} THEN None ELSE Some(First(Found(references, id)) - 1)

\* update_group_reference up to drop(read_reference): the index is found
UpdateRead ==
    \E t \in Threads :
        /\ raceAt[t] = "idle"
        /\ raceCalls[t] < MaxUpdates
        /\ raceCalls' = [raceCalls EXCEPT ![t] = @ + 1]
        /\ raceIndex' = [raceIndex EXCEPT ![t] = position_of(registry, t)]
        /\ raceAt' = [raceAt EXCEPT ![t] = "found"]
        /\ UNCHANGED <<pc, varsGroup, varsHit, varsCsg, varsShadow, varsColor, varsCamera,
                       varsMatrix, varsIds, varsObj, varsScene, varsNormal, varsFold,
                       varsWorld, varsTree, varsComp, varsPpm, varsDivide, varsBox>>

\* write_reference.remove(i); write_reference.push(..), or a panic of remove
RemoveAndPush(references, i, g) ==
    IF i < Len(references)
    THEN [registry |-> Append(SubSeq(references, 1, i) \o
                              SubSeq(references, i + 2, Len(references)), g),
          at |-> "idle"]
    ELSE [registry |-> references, at |-> "panicked"]

\* update_group_reference under the write lock, with the index found before
UpdateWrite ==
    \E t \in Threads :
        /\ raceAt[t] = "found"
        /\ \E after \in {IF raceIndex[t] = None
                           THEN [registry |-> Append(registry, GroupOf(t, raceCalls[t])),
                                 at |-> "idle"]
                           ELSE RemoveAndPush(registry, raceIndex[t][1],
                                              GroupOf(t, raceCalls[t]))} :
              /\ registry' = after.registry
              /\ raceAt' = [raceAt EXCEPT ![t] = after.at]
        /\ raceIndex' = [raceIndex EXCEPT ![t] = None]
        /\ UNCHANGED <<pc, group, idCount, threshold, undivided, groupCsg, extracted,
                       raceCalls, varsHit, varsCsg, varsShadow, varsColor, varsCamera,
                       varsMatrix, varsIds, varsObj, varsScene, varsNormal, varsFold,
                       varsWorld, varsTree, varsComp, varsPpm, varsDivide, varsBox>>

\* C29: when update_group_reference / update_csg_reference calls for different
\* ids run on several threads, the registry afterwards holds exactly one entry
\* for every id that was registered: no call removes the entry of another id,
\* leaves two entries for its own, or removes at an index past the end.
C29_OneEntryPerId ==
    (\A t \in Threads : raceAt[t] # "found") =>
        \A t \in Threads :
            /\ raceAt[t] # "panicked"
            /\ raceCalls[t] > 0 => Cardinality(Found(registry, t)) = 1

\* ------------------------------------------- Bound::add_box and the empty box
IdleBox ==
    /\ boundBox = None
    /\ boundGroup = None
    /\ boundSum = None
    /\ boundCall = "none"

\* the boxes of the program: the empty box, and the boxes with minimum <= maximum
\* on every axis, finite or not (Plane::bounds_of, Cylinder::bounds_of)
Minimums == {NInf, Fin(Fixed(-1)), Fin(0), Fin(Fixed(1))}
Maximums == {Fin(Fixed(-1)), Fin(0), Fin(Fixed(1)), PInf}
Extents == {e \in Minimums \X Maximums : ~FGt(e[1], e[2])}
Boxes ==
    {bounding_box_empty}
    \cup {Bound(<<xz[1], y[1], xz[1]>>, <<xz[2], y[2], xz[2]>>) : xz \in Extents, y \in Extents}

InitBox ==
    /\ pc = "start"
    /\ boundBox \in {Some(b) : b \in Boxes}
    /\ boundGroup = None
    /\ boundSum = None
    /\ boundCall = "none"

\* b.add_box(Bound::bounding_box_empty())
AddEmptyBox ==
    /\ boundCall = "none"
    /\ boundSum' = Some(add_box(boundBox[1], bounding_box_empty))
    /\ boundCall' = "add_empty"
    /\ UNCHANGED <<pc, boundBox, boundGroup, varsGroup, varsHit, varsCsg, varsShadow,
                   varsColor, varsCamera, varsMatrix, varsIds, varsObj, varsScene, varsNormal,
                   varsFold, varsWorld, varsTree, varsComp, varsPpm, varsDivide, varsRace>>

\* let mut empty = Bound::bounding_box_empty(); empty.add_box(b)
AddBoxToEmpty ==
    /\ boundCall = "none"
    /\ boundSum' = Some(add_box(bounding_box_empty, boundBox[1]))
    /\ boundCall' = "add_to_empty"
    /\ UNCHANGED <<pc, boundBox, boundGroup, varsGroup, varsHit, varsCsg, varsShadow,
                   varsColor, varsCamera, varsMatrix, varsIds, varsObj, varsScene, varsNormal,
                   varsFold, varsWorld, varsTree, varsComp, varsPpm, varsDivide, varsRace>>

\* a child with empty bounds: a group without children, placed or not
EmptyChild(id, t) == [Group(id) EXCEPT !.transform = Transform(t, 1)]
EmptyChildren ==
    {<<>>} \cup {<<EmptyChild(2, t)>> : t \in {<<0, 0, 0>>, <<Fixed(2), 0, 0>>}}
    \cup {<<EmptyChild(2, t), EmptyChild(3, u)>> :
             t \in {<<0, 0, 0>>, <<Fixed(2), 0, 0>>}, u \in {<<0, 0, 0>>, <<0, Fixed(2), 0>>}}

\* group.bounds_of() of a group whose children all have empty bounds
BoundsOfEmptyChildren ==
    /\ boundCall = "none"
    /\ \E children \in EmptyChildren :
          \E g \in {[Group(1) EXCEPT !.shapes = children]} :
              /\ boundGroup' = Some(g)
              /\ boundSum' = Some(bounds_of(g))
    /\ boundCall' = "bounds_of"
    /\ UNCHANGED <<pc, boundBox, varsGroup, varsHit, varsCsg, varsShadow, varsColor,
                   varsCamera, varsMatrix, varsIds, varsObj, varsScene, varsNormal, varsFold,
                   varsWorld, varsTree, varsComp, varsPpm, varsDivide, varsRace>>

\* C30: the empty box is the identity of Bound::add_box: b.add_box(empty) leaves
\* b as it is and empty.add_box(b) yields b, for every box b, the empty box
\* too; the bounds of a group whose children all have empty bounds are the
\* empty box.
C30_EmptyBoxIsIdentity ==
    /\ boundCall \in {"add_empty", "add_to_empty"} => boundSum = boundBox
    /\ boundCall = "bounds_of" => boundSum = Some(bounding_box_empty)

\* ---------------------------------------------------------- specifications
InitSpecHit ==
    IdleCsg /\ IdleShadow /\ IdleColor /\ IdleCamera /\ IdleGroup /\ IdleMatrix /\ IdleIds /\
    IdleObj /\ IdleScene /\ IdleNormal /\ IdleFold /\ IdleWorld /\ IdleTree /\ IdleComp /\
    IdlePpm /\ IdleDivide /\ IdleRace /\ IdleBox /\ InitHit
NextHit == Hit
SpecHit == InitSpecHit /\ [][NextHit]_vars

InitSpecCsg ==
    IdleHit /\ IdleShadow /\ IdleColor /\ IdleCamera /\ IdleGroup /\ IdleMatrix /\ IdleIds /\
    IdleObj /\ IdleScene /\ IdleNormal /\ IdleFold /\ IdleWorld /\ IdleTree /\ IdleComp /\
    IdlePpm /\ IdleDivide /\ IdleRace /\ IdleBox /\ InitCsg
NextCsg == IntersectionAllowed \/ FilterIntersections \/ CsgIntersect
SpecCsg == InitSpecCsg /\ [][NextCsg]_vars

InitSpecShadow ==
    IdleHit /\ IdleCsg /\ IdleColor /\ IdleCamera /\ IdleGroup /\ IdleMatrix /\ IdleIds /\
    IdleObj /\ IdleScene /\ IdleNormal /\ IdleFold /\ IdleWorld /\ IdleTree /\ IdleComp /\
    IdlePpm /\ IdleDivide /\ IdleRace /\ IdleBox /\ InitShadow
NextShadow == AddObject \/ IsShadowed
SpecShadow == InitSpecShadow /\ [][NextShadow]_vars

InitSpecColor ==
    IdleHit /\ IdleCsg /\ IdleShadow /\ IdleCamera /\ IdleGroup /\ IdleMatrix /\ IdleIds /\
    IdleObj /\ IdleScene /\ IdleNormal /\ IdleFold /\ IdleWorld /\ IdleTree /\ IdleComp /\
    IdlePpm /\ IdleDivide /\ IdleRace /\ IdleBox /\ InitColor
NextColor ==
    \/ ColorAtCall \/ ColorAtMiss \/ ColorAtHit
    \/ ReflectedBlack \/ ReflectedCall
    \/ RefractedBlack \/ TotalInternalReflection \/ RefractedCall
    \/ ShadeHitReturn
SpecColor == InitSpecColor /\ [][NextColor]_vars
FairSpecColor == SpecColor /\ WF_vars(NextColor)

InitSpecCamera ==
    IdleHit /\ IdleCsg /\ IdleShadow /\ IdleColor /\ IdleGroup /\ IdleMatrix /\ IdleIds /\
    IdleObj /\ IdleScene /\ IdleNormal /\ IdleFold /\ IdleWorld /\ IdleTree /\ IdleComp /\
    IdlePpm /\ IdleDivide /\ IdleRace /\ IdleBox /\ InitCamera
NextCamera == RenderStart \/ RenderPixel \/ RenderRow \/ RenderReturn
SpecCamera == InitSpecCamera /\ [][NextCamera]_vars

InitSpecGroup ==
    IdleHit /\ IdleCsg /\ IdleShadow /\ IdleColor /\ IdleCamera /\ IdleMatrix /\ IdleIds /\
    IdleObj /\ IdleScene /\ IdleNormal /\ IdleFold /\ IdleWorld /\ IdleTree /\ IdleComp /\
    IdlePpm /\ IdleDivide /\ IdleRace /\ IdleBox /\ InitGroup
NextGroup == AddCylinder \/ AddGroup \/ Divide
SpecGroup == InitSpecGroup /\ [][NextGroup]_vars

NextRegistry ==
    \/ AddCylinderChild \/ AddGroupChild \/ NewCsg
    \/ PartitionChildren \/ MakeSubgroup \/ DivideGroup
SpecRegistry == InitSpecGroup /\ [][NextRegistry]_vars
InitSpecMatrix ==
    IdleHit /\ IdleCsg /\ IdleShadow /\ IdleColor /\ IdleCamera /\ IdleGroup /\ IdleIds /\
    IdleObj /\ IdleScene /\ IdleNormal /\ IdleFold /\ IdleWorld /\ IdleTree /\ IdleComp /\
    IdlePpm /\ IdleDivide /\ IdleRace /\ IdleBox /\ InitMatrix
NextMatrix ==
    MatrixNew \/ MatrixClone \/ MatrixAssign \/ MatrixInverse
SpecMatrix == InitSpecMatrix /\ [][NextMatrix]_vars

InitSpecIds ==
    IdleHit /\ IdleCsg /\ IdleShadow /\ IdleColor /\ IdleCamera /\ IdleGroup /\ IdleMatrix /\
    IdleObj /\ IdleScene /\ IdleNormal /\ IdleFold /\ IdleWorld /\ IdleTree /\ IdleComp /\
    IdlePpm /\ IdleDivide /\ IdleRace /\ IdleBox /\ InitIds
NextIds == SphereNew \/ CubeNew \/ SharedNew \/ ShapeClone
SpecIds == InitSpecIds /\ [][NextIds]_vars

InitSpecObj ==
    IdleHit /\ IdleCsg /\ IdleShadow /\ IdleColor /\ IdleCamera /\ IdleGroup /\ IdleMatrix /\
    IdleIds /\ IdleScene /\ IdleNormal /\ IdleFold /\ IdleWorld /\ IdleTree /\ IdleComp /\
    IdlePpm /\ IdleDivide /\ IdleRace /\ IdleBox /\ InitObj
NextObj == ReadVertex \/ ReadNormal \/ ReadFace \/ ReadGroup \/ ReadOther \/ ParseReturn
SpecObj == InitSpecObj /\ [][NextObj]_vars

InitSpecScene ==
    IdleHit /\ IdleCsg /\ IdleShadow /\ IdleColor /\ IdleCamera /\ IdleGroup /\ IdleIds /\
    IdleObj /\ IdleNormal /\ IdleFold /\ IdleWorld /\ IdleTree /\ IdleComp /\ IdlePpm /\
    IdleDivide /\ IdleRace /\ IdleBox /\ InitScene
NextScene ==
    WorldAdd \/ RenderBegin \/ ObjectIntersect \/ PixelWritten \/ RowDone \/ RenderDone
SpecScene == InitSpecScene /\ [][NextScene]_vars

InitSpecNormal ==
    IdleHit /\ IdleCsg /\ IdleShadow /\ IdleColor /\ IdleCamera /\ IdleGroup /\ IdleIds /\
    IdleObj /\ IdleScene /\ IdleFold /\ IdleWorld /\ IdleTree /\ IdleComp /\ IdlePpm /\
    IdleDivide /\ IdleRace /\ IdleBox /\ InitNormal
NextNormal == NormalAtDirect \/ NormalAtCall \/ WorldToObject \/ LocalNormalAt \/ NormalToWorld
SpecNormal == InitSpecNormal /\ [][NextNormal]_vars

InitSpecFold ==
    IdleHit /\ IdleCsg /\ IdleShadow /\ IdleColor /\ IdleCamera /\ IdleMatrix /\ IdleIds /\
    IdleObj /\ IdleScene /\ IdleNormal /\ IdleFold /\ IdleWorld /\ IdleTree /\ IdleComp /\
    IdlePpm /\ IdleDivide /\ IdleRace /\ IdleBox /\ InitGroup
NextFold ==
    \/ AddCylinder \/ AddGroup \/ Divide
    \/ GroupIntersectHit \/ GroupIntersectMiss \/ FoldChild \/ FoldReturn
SpecFold == InitSpecFold /\ [][NextFold]_vars

InitSpecWorld ==
    IdleHit /\ IdleCsg /\ IdleColor /\ IdleCamera /\ IdleGroup /\ IdleMatrix /\ IdleIds /\
    IdleObj /\ IdleScene /\ IdleNormal /\ IdleFold /\ IdleTree /\ IdleComp /\ IdlePpm /\
    IdleDivide /\ IdleRace /\ IdleBox /\ InitWorld
NextWorld ==
    \/ WorldPush \/ IntersectWorld \/ ColorAtIntersections \/ IsShadowedIntersections
    \/ IsShadowedAtLight \/ WorldCallReturn
SpecWorld == InitSpecWorld /\ [][NextWorld]_vars

InitSpecTree ==
    IdleHit /\ IdleCsg /\ IdleShadow /\ IdleColor /\ IdleCamera /\ IdleMatrix /\ IdleIds /\
    IdleObj /\ IdleScene /\ IdleNormal /\ IdleFold /\ IdleWorld /\ IdleComp /\ IdlePpm /\
    IdleDivide /\ IdleRace /\ IdleBox /\ InitTree
NextTree ==
    \/ TreeAddChild \/ TreeSetMaterial \/ TreeSetTransform \/ TreeSetParent
    \/ TreeGetMaterial
SpecTree == InitSpecTree /\ [][NextTree]_vars

InitSpecComp ==
    IdleHit /\ IdleCsg /\ IdleShadow /\ IdleColor /\ IdleCamera /\ IdleGroup /\ IdleMatrix /\
    IdleIds /\ IdleObj /\ IdleScene /\ IdleNormal /\ IdleFold /\ IdleWorld /\ IdleTree /\
    IdlePpm /\ IdleDivide /\ IdleRace /\ IdleBox /\ InitComp
NextComp == PrepareComputations \/ PrepareStep \/ PrepareReturn
SpecComp == InitSpecComp /\ [][NextComp]_vars

InitSpecPpm ==
    IdleHit /\ IdleCsg /\ IdleShadow /\ IdleColor /\ IdleCamera /\ IdleGroup /\ IdleMatrix /\
    IdleIds /\ IdleObj /\ IdleScene /\ IdleNormal /\ IdleFold /\ IdleWorld /\ IdleTree /\
    IdleComp /\ IdleDivide /\ IdleRace /\ IdleBox /\ InitPpm
NextPpm == CanvasNew \/ CanvasToPpm \/ PpmPixel \/ PpmReturn
SpecPpm == InitSpecPpm /\ [][NextPpm]_vars

NextPartition == AddChildToPartition \/ PartitionGroup
SpecPartition == InitSpecGroup /\ [][NextPartition]_vars

NextDivide ==
    \/ AddChildToPartition
    \/ DivideCall \/ DivideLeaf \/ DivideChild \/ DivideOverflow \/ DivideReturn
SpecDivide == InitSpecGroup /\ [][NextDivide]_vars

InitSpecRace ==
    IdleHit /\ IdleCsg /\ IdleShadow /\ IdleColor /\ IdleCamera /\ IdleMatrix /\ IdleIds /\
    IdleObj /\ IdleScene /\ IdleNormal /\ IdleFold /\ IdleWorld /\ IdleTree /\ IdleComp /\
    IdlePpm /\ IdleDivide /\ IdleBox /\ InitRace
NextRace == UpdateRead \/ UpdateWrite
SpecRace == InitSpecRace /\ [][NextRace]_vars

InitSpecBox ==
    IdleHit /\ IdleCsg /\ IdleShadow /\ IdleColor /\ IdleCamera /\ IdleGroup /\ IdleMatrix /\
    IdleIds /\ IdleObj /\ IdleScene /\ IdleNormal /\ IdleFold /\ IdleWorld /\ IdleTree /\
    IdleComp /\ IdlePpm /\ IdleDivide /\ IdleRace /\ InitBox
NextBox == AddEmptyBox \/ AddBoxToEmpty \/ BoundsOfEmptyChildren
SpecBox == InitSpecBox /\ [][NextBox]_vars
====
